---- MODULE Spec2Model ----
(***************************************************************************)
(* Model of the repository-ingestion server of insightsRepo.               *)
(*                                                                         *)
(* Requests (one goroutine each, net/http) run one of the handlers         *)
(*   RepoHandler               src/server/main.go    POST /repo  (SSE)     *)
(*   CloneHandler              handlers/handler.go   POST /clone           *)
(*   CommitsHandler            handlers/handler.go   GET /commits          *)
(*   BranchesHandler           handlers/handler.go   GET /branches         *)
(*   FileModificationsHandler  handlers/handler.go   GET /file-modifications *)
(* against the shared directory repos/<repoID>.  The first is the only     *)
(* route of the server of main.go; the others are routes of the server     *)
(* built on the handlers package.  Requests are numbered in the order      *)
(* they arrive.  A handler is cut into steps at its calls of os.Stat,      *)
(* PlainClone, PlainOpen and Head and at every round of iter.ForEach,      *)
(* the points where another request or the client's disconnect can         *)
(* interleave; the sends between getBranches and repo.Log form one step.   *)
(* WalkSpec cuts a round of iter.ForEach further, into the call of the     *)
(* iterator and the callback.                                              *)
(*                                                                         *)
(* go-git is modelled at its interface: PlainClone creates the directory   *)
(* when it starts, fills it while it runs, removes what it created when    *)
(* it fails, and fails at once with ErrRepositoryAlreadyExists on a path   *)
(* that already holds a repository; PlainOpen and Head read the directory  *)
(* as it is on disk at the time of the call; repo.Log yields the commits   *)
(* in pre-order, first parents first; repo.References() yields the         *)
(* references kept as files before the packed ones.                        *)
(***************************************************************************)
EXTENDS Integers, Sequences, FiniteSets, TLC

\* ------------------------------------------------------------------ bounds
NumSessions == 2
MaxCommits == 2
MaxHistory == 4
MaxUrlLen == 3
MaxSubmits == 2
MaxEvents == 2

Sessions == 1..NumSessions

\* ------------------------------------------------------------ request URLs
\* strings are sequences of one-character strings
UrlA == <<"x", "/", "a", ".", "g", "i", "t">>
UrlB == <<"x", "/", "b", ".", "g", "i", "t">>
Urls == {UrlA, UrlB}
NoUrl == <<>>

DotGit == <<".", "g", "i", "t">>

\* strings.Split(s, "/"): the parts of s between the separators
RECURSIVE Split(_, _)
Split(s, sep) ==
    IF \E i \in 1..Len(s) : s[i] = sep
    THEN LET i == CHOOSE j \in 1..Len(s) : s[j] = sep /\ \A k \in 1..(j-1) : s[k] # sep
         IN <<SubSeq(s, 1, i-1)>> \o Split(SubSeq(s, i+1, Len(s)), sep)
    ELSE <<s>>

\* strings.TrimSuffix(s, suffix)
TrimSuffix(s, suffix) ==
    IF Len(s) >= Len(suffix) /\ SubSeq(s, Len(s) - Len(suffix) + 1, Len(s)) = suffix
    THEN SubSeq(s, 1, Len(s) - Len(suffix))
    ELSE s

\* repoID of RepoHandler: last "/"-part of the URL without a trailing ".git"
RepoIDOf(u) ==
    LET parts == Split(u, "/")
    IN TrimSuffix(parts[Len(parts)], DotGit)

RepoIds == {RepoIDOf(u) : u \in Urls}

\* strings.Join(parts, sep)
RECURSIVE Join(_, _)
Join(parts, sep) ==
    IF parts = <<>> THEN <<>>
    ELSE IF Len(parts) = 1 THEN parts[1]
    ELSE parts[1] \o <<sep>> \o Join(Tail(parts), sep)

\* the elements of a relative path that filepath.Clean keeps, out being
\* those kept so far: "" and "." are dropped, ".." removes the element
\* before it when there is one to remove
RECURSIVE CleanParts(_, _)
CleanParts(parts, out) ==
    IF parts = <<>> THEN out
    ELSE IF Head(parts) \in {<<>>, <<".">>} THEN CleanParts(Tail(parts), out)
    ELSE IF Head(parts) = <<".", ".">> /\ out # <<>> /\ out[Len(out)] # <<".", ".">>
    THEN CleanParts(Tail(parts), SubSeq(out, 1, Len(out) - 1))
    ELSE CleanParts(Tail(parts), Append(out, Head(parts)))

\* filepath.Join(dir, name) for a relative dir: the two joined by "/", an
\* empty name left out, and the result cleaned; "." when nothing is left
filepathJoin(dir, name) ==
    LET joined == IF name = <<>> THEN dir ELSE dir \o <<"/">> \o name
        kept == CleanParts(Split(joined, "/"), <<>>)
    IN IF kept = <<>> THEN <<".">> ELSE Join(kept, "/")

\* repoPath of RepoHandler: the directory of the repository with identifier id
repoPath(id) == filepathJoin(<<"r", "e", "p", "o", "s">>, id)

\* the URLs a client can send: the strings of up to n characters of a path
RECURSIVE StringsUpTo(_)
StringsUpTo(n) ==
    IF n = 0 THEN {<<>>}
    ELSE LET shorter == StringsUpTo(n - 1)
         IN shorter \cup {Append(x, c) : x \in {y \in shorter : Len(y) = n - 1},
                                         c \in {"a", "/", "."}}

\* with and without the suffix ".git"
UrlInputs == {x \o suffix : x \in StringsUpTo(MaxUrlLen), suffix \in {<<>>, DotGit}}

\* ---------------------------------------------------------- reference names
HeadsPrefix == <<"r", "e", "f", "s", "/", "h", "e", "a", "d", "s", "/">>
TagsPrefix == <<"r", "e", "f", "s", "/", "t", "a", "g", "s", "/">>
RemotesPrefix == <<"r", "e", "f", "s", "/", "r", "e", "m", "o", "t", "e", "s", "/">>
HEAD == <<"H", "E", "A", "D">>

\* strings.HasPrefix(s, prefix)
HasPrefix(s, prefix) ==
    Len(s) >= Len(prefix) /\ SubSeq(s, 1, Len(prefix)) = prefix

\* plumbing.ReferenceName.IsBranch()
IsBranch(name) == HasPrefix(name, HeadsPrefix)

\* plumbing.ReferenceName.Short(): the name without the prefix of its kind
Short(name) ==
    LET prefixes == {HeadsPrefix, TagsPrefix, RemotesPrefix}
        matching == {p \in prefixes : HasPrefix(name, p)}
    IN IF matching = {} THEN name
       ELSE LET p == CHOOSE q \in matching : TRUE
            IN SubSeq(name, Len(p) + 1, Len(name))

\* the characters of reference names, in the order of their codes
Alphabet == <<"/", "a", "b", "d", "e", "f", "g", "h", "m", "o", "r", "s", "t">>

Code(c) == CHOOSE i \in 1..Len(Alphabet) : Alphabet[i] = c

\* x < y as strings
RECURSIVE LexLess(_, _)
LexLess(x, y) ==
    IF y = <<>> THEN FALSE
    ELSE IF x = <<>> THEN TRUE
    ELSE IF x[1] = y[1] THEN LexLess(Tail(x), Tail(y))
    ELSE Code(x[1]) < Code(y[1])

\* the strings of a set in ascending order
RECURSIVE SortedNames(_)
SortedNames(S) ==
    IF S = {} THEN <<>>
    ELSE LET m == CHOOSE x \in S : \A y \in S \ {x} : LexLess(x, y)
         IN <<m>> \o SortedNames(S \ {m})

\* the references a repository directory can hold besides HEAD: two local
\* branches, a tag named as one of them, a remote-tracking branch
RefNames ==
    {HeadsPrefix \o <<"a">>, HeadsPrefix \o <<"b">>,
     TagsPrefix \o <<"a">>, RemotesPrefix \o <<"o", "/", "b">>}

\* repo.References() on a directory: the references kept as files under
\* refs/, in the order of the directory walk, then those of the packed-refs
\* file, in the order of the file, then HEAD
Enumeration(loose, packed) == SortedNames(loose) \o SortedNames(packed) \o <<HEAD>>

\* the references of a directory that PlainClone made: the local branch of
\* the remote HEAD as a file, the remote-tracking branches and the tags
ClonedRefs ==
    Enumeration({HeadsPrefix \o <<"a">>, RemotesPrefix \o <<"o", "/", "b">>,
                 TagsPrefix \o <<"a">>}, {})

\* the loop over the references: the short names of those for which
\* IsBranch() holds, in the order of the enumeration, with the slip of
\* a missing filter
BranchNames_allRefs(q) == [i \in 1..Len(q) |-> Short(q[i])]

\* the loop over the references: the short names of those for which
\* IsBranch() holds, in the order of the enumeration
BranchNames(q) ==
    LET b == SelectSeq(q, IsBranch)
    IN [i \in 1..Len(b) |-> Short(b[i])]

\* ========================================= the client RepoAnalyzer: its texts
\* ------------------------------------------------------------ JSON values
\* A JSON value is null ([t |-> "null"]), a string, an array or an object;
\* an object lists its members in the order of the text.
JString(s) == [t |-> "string", v |-> s]
JArray(xs) == [t |-> "array", v |-> xs]
JObject(ms) == [t |-> "object", v |-> ms]

Quote == "\""
Backslash == "\\"
Newline == "\n"

\* the character that UTF-8 encodes in two bytes, and its bytes
EAcute == "U+00E9"
EAcuteBytes == <<"0xC3", "0xA9">>

\* the concatenation of the sequences of a sequence, by halves
RECURSIVE Concat(_)
Concat(qs) ==
    IF Len(qs) = 0 THEN <<>>
    ELSE IF Len(qs) = 1 THEN qs[1]
    ELSE LET m == Len(qs) \div 2
         IN Concat(SubSeq(qs, 1, m)) \o Concat(SubSeq(qs, m + 1, Len(qs)))

\* a string literal as encoding/json writes it: quotation mark, backslash,
\* control characters and the characters of HTML escaped, everything else
\* as it is
EscapeChar(c) ==
    IF c = Quote THEN <<Backslash, Quote>>
    ELSE IF c = Backslash THEN <<Backslash, Backslash>>
    ELSE IF c = Newline THEN <<Backslash, "n">>
    ELSE IF c = "<" THEN <<Backslash, "u", "0", "0", "3", "c">>
    ELSE <<c>>

MarshalString(s) ==
    <<Quote>> \o Concat([i \in 1..Len(s) |-> EscapeChar(s[i])]) \o <<Quote>>

\* json.Marshal of a value: no white space between the tokens
RECURSIVE Marshal(_)
Marshal(j) ==
    CASE j.t = "null" -> <<"n", "u", "l", "l">>
      [] j.t = "string" -> MarshalString(j.v)
      [] j.t = "array" ->
            <<"[">> \o Join([i \in 1..Len(j.v) |-> Marshal(j.v[i])], ",") \o <<"]">>
      [] j.t = "object" ->
            <<"{">>
            \o Join([i \in 1..Len(j.v) |->
                        MarshalString(j.v[i][1]) \o <<":">> \o Marshal(j.v[i][2])], ",")
            \o <<"}">>

\* the result of a parsing step: the value read and the text after it, or
\* the failure
ParseError == [ok |-> FALSE]
Parsed(value, rest) == [ok |-> TRUE, value |-> value, rest |-> rest]

\* the text without the white space at its start
RECURSIVE SkipSpace(_)
SkipSpace(x) ==
    IF x # <<>> /\ Head(x) \in {" ", Newline} THEN SkipSpace(Tail(x)) ELSE x

\* the characters of a string literal up to its closing quotation mark, x
\* being the text after the opening one and acc the characters read so far
RECURSIVE ParseChars(_, _)
ParseChars(x, acc) ==
    IF x = <<>> THEN ParseError
    ELSE IF Head(x) = Quote THEN Parsed(JString(acc), Tail(x))
    ELSE IF Head(x) = Newline THEN ParseError
    ELSE IF Head(x) = Backslash
    THEN IF Len(x) < 2 THEN ParseError
         ELSE IF x[2] \in {Quote, Backslash}
         THEN ParseChars(SubSeq(x, 3, Len(x)), Append(acc, x[2]))
         ELSE IF x[2] = "n" THEN ParseChars(SubSeq(x, 3, Len(x)), Append(acc, Newline))
         ELSE IF Len(x) >= 6 /\ SubSeq(x, 2, 6) = <<"u", "0", "0", "3", "c">>
         THEN ParseChars(SubSeq(x, 7, Len(x)), Append(acc, "<"))
         ELSE ParseError
    ELSE ParseChars(Tail(x), Append(acc, Head(x)))

RECURSIVE ParseValue(_)
RECURSIVE ParseElements(_, _)
RECURSIVE ParseMembers(_, _)

\* the value at the start of the text
ParseValue(x0) ==
    LET x == SkipSpace(x0)
    IN IF x = <<>> THEN ParseError
       ELSE IF Head(x) = Quote THEN ParseChars(Tail(x), <<>>)
       ELSE IF Len(x) >= 4 /\ SubSeq(x, 1, 4) = <<"n", "u", "l", "l">>
       THEN Parsed([t |-> "null"], SubSeq(x, 5, Len(x)))
       ELSE IF Head(x) = "["
       THEN LET y == SkipSpace(Tail(x))
            IN IF y # <<>> /\ Head(y) = "]" THEN Parsed(JArray(<<>>), Tail(y))
               ELSE ParseElements(y, <<>>)
       ELSE IF Head(x) = "{"
       THEN LET y == SkipSpace(Tail(x))
            IN IF y # <<>> /\ Head(y) = "}" THEN Parsed(JObject(<<>>), Tail(y))
               ELSE ParseMembers(y, <<>>)
       ELSE ParseError

\* the elements of an array after its "[" or a ","
ParseElements(x, acc) ==
    LET e == ParseValue(x)
    IN IF ~e.ok THEN ParseError
       ELSE LET y == SkipSpace(e.rest)
            IN IF y = <<>> THEN ParseError
               ELSE IF Head(y) = "," THEN ParseElements(Tail(y), Append(acc, e.value))
               ELSE IF Head(y) = "]" THEN Parsed(JArray(Append(acc, e.value)), Tail(y))
               ELSE ParseError

\* the members of an object after its "{" or a ","
ParseMembers(x0, acc) ==
    LET x == SkipSpace(x0)
    IN IF x = <<>> \/ Head(x) # Quote THEN ParseError
       ELSE LET k == ParseChars(Tail(x), <<>>)
            IN IF ~k.ok THEN ParseError
               ELSE LET y == SkipSpace(k.rest)
                    IN IF y = <<>> \/ Head(y) # ":" THEN ParseError
                       ELSE LET e == ParseValue(Tail(y))
                            IN IF ~e.ok THEN ParseError
                               ELSE LET z == SkipSpace(e.rest)
                                        ms == Append(acc, <<k.value.v, e.value>>)
                                    IN IF z = <<>> THEN ParseError
                                       ELSE IF Head(z) = ","
                                       THEN ParseMembers(Tail(z), ms)
                                       ELSE IF Head(z) = "}"
                                       THEN Parsed(JObject(ms), Tail(z))
                                       ELSE ParseError

\* JSON.parse(text): the value when the text is one value with nothing but
\* white space around it, a SyntaxError otherwise
JSONParse(text) ==
    LET r == ParseValue(text)
    IN IF r.ok /\ SkipSpace(r.rest) = <<>> THEN r ELSE ParseError

\* ------------------------------------------------------- strings of the client
StatusTag == <<"s", "t", "a", "t", "u", "s">>
ErrorTag == <<"e", "r", "r", "o", "r">>
CompleteTag == <<"c", "o", "m", "p", "l", "e", "t", "e">>
InfoTag == <<"i", "n", "f", "o">>
MessageTag == <<"m", "e", "s", "s", "a", "g", "e">>

EventField == <<"e", "v", "e", "n", "t", ":">>
DataField == <<"d", "a", "t", "a", ":">>

\* the bytes of a text in UTF-8
EncodeUTF8(text) ==
    Concat([i \in 1..Len(text) |-> IF text[i] = EAcute THEN EAcuteBytes ELSE <<text[i]>>])

\* TextDecoderStream on the bytes it holds: the characters of the complete
\* byte sequences, and the bytes of an incomplete one at the end, which it
\* keeps for the next chunk.  Bytes that are all of one-byte characters are
\* the text; others are decoded by halves, cut where no byte sequence is
\* cut.
RECURSIVE DecodeUTF8(_)
DecodeUTF8(bytes) ==
    IF \A i \in 1..Len(bytes) : bytes[i] \notin {EAcuteBytes[1], EAcuteBytes[2]}
    THEN [text |-> bytes, held |-> <<>>]
    ELSE IF Len(bytes) = 1
    THEN IF bytes[1] = EAcuteBytes[1] THEN [text |-> <<>>, held |-> bytes]
         ELSE IF bytes[1] = EAcuteBytes[2] THEN [text |-> <<"U+FFFD">>, held |-> <<>>]
         ELSE [text |-> bytes, held |-> <<>>]
    ELSE IF Len(bytes) = 2 /\ bytes[1] = EAcuteBytes[1]
    THEN IF bytes[2] = EAcuteBytes[2] THEN [text |-> <<EAcute>>, held |-> <<>>]
         ELSE LET r == DecodeUTF8(Tail(bytes))
              IN [text |-> <<"U+FFFD">> \o r.text, held |-> r.held]
    ELSE LET half == Len(bytes) \div 2
             m == IF bytes[half] = EAcuteBytes[1] THEN half + 1 ELSE half
             l == DecodeUTF8(SubSeq(bytes, 1, m))
             r == DecodeUTF8(SubSeq(bytes, m + 1, Len(bytes)))
         IN [text |-> l.text \o r.text, held |-> r.held]

\* String.prototype.indexOf: the index, from 0, of the first occurrence of
\* pat in s, -1 when there is none
IndexOf(s, pat) ==
    LET at == {i \in 1..(Len(s) - Len(pat) + 1) :
                  s[i] = pat[1] /\ SubSeq(s, i, i + Len(pat) - 1) = pat}
    IN IF at = {} THEN -1 ELSE (CHOOSE i \in at : \A j \in at : i <= j) - 1

\* String.prototype.substring(from, to) and substring(from), indices from 0
Substring(s, from, to) == SubSeq(s, from + 1, to)

WhiteSpace == {" ", Newline, "\t", "\r"}

\* String.prototype.trim
RECURSIVE TrimEnd(_)
TrimEnd(s) ==
    IF s # <<>> /\ s[Len(s)] \in WhiteSpace THEN TrimEnd(SubSeq(s, 1, Len(s) - 1)) ELSE s

RECURSIVE TrimStart(_)
TrimStart(s) == IF s # <<>> /\ Head(s) \in WhiteSpace THEN TrimStart(Tail(s)) ELSE s

Trim(s) == TrimEnd(TrimStart(s))

\* String.prototype.split(sep) for a separator of one character
RECURSIVE SplitString(_, _)
SplitString(s, sep) ==
    LET i == IndexOf(s, <<sep>>)
    IN IF i = -1 THEN <<s>>
       ELSE <<Substring(s, 0, i)>> \o SplitString(Substring(s, i + 1, Len(s)), sep)

\* sendSSEMessage of the server: the text of an event, the "event:" line,
\* the "data:" line with the marshalled payload, and the blank line
Frame(e) ==
    EventField \o <<" ">> \o e.type \o <<Newline>>
    \o DataField \o <<" ">> \o Marshal(e.data) \o <<Newline, Newline>>

\* the stream of a response: the frames of its events, as bytes
FrameAll(es) == EncodeUTF8(Concat([i \in 1..Len(es) |-> Frame(es[i])]))

\* an entry of the message list (the timestamp is left out)
Message(type, payload) == [type |-> type, payload |-> payload]

\* the payload of a message the client makes itself: a text and what it
\* puts into it
ClientText(text, about) == [text |-> text, about |-> about]

\* the forEach over the lines of a message: the last "event:" line gives
\* the type, the last "data:" line the data
RECURSIVE ScanLines(_, _, _)
ScanLines(lines, eventType, eventData) ==
    IF lines = <<>> THEN [eventType |-> eventType, eventData |-> eventData]
    ELSE LET line == Head(lines)
         IN IF HasPrefix(line, EventField)
            THEN ScanLines(Tail(lines), Trim(Substring(line, 6, Len(line))), eventData)
            ELSE IF HasPrefix(line, DataField)
            THEN ScanLines(Tail(lines), eventType, Trim(Substring(line, 5, Len(line))))
            ELSE ScanLines(Tail(lines), eventType, eventData)

\* what the reader appends for the text of one message: nothing when it has
\* no data, the parsed data under the type of the event, or an error entry
\* when the data is no JSON text
MessagesOf(message) ==
    LET f == ScanLines(SplitString(message, Newline), MessageTag, <<>>)
    IN IF f.eventData = <<>> THEN <<>>
       ELSE LET parsedData == JSONParse(f.eventData)
            IN IF parsedData.ok
               THEN <<Message(f.eventType, parsedData.value)>>
               ELSE <<Message(ErrorTag,
                              ClientText("Failed to parse message data", f.eventData))>>

\* the inner while loop of the reader: as long as the buffer holds a blank
\* line, the text before it is taken out and handled
RECURSIVE Drain(_, _)
Drain(buffer, out) ==
    LET boundary == IndexOf(buffer, <<Newline, Newline>>)
    IN IF boundary = -1 THEN [buffer |-> buffer, out |-> out]
       ELSE Drain(Substring(buffer, boundary + 2, Len(buffer)),
                  out \o MessagesOf(Substring(buffer, 0, boundary)))

\* ------------------------------------------------------- repository content
\* The commits of every repository are 1..nCommits, commit 1 is the one HEAD
\* points to, and parents[k] lists the parents of commit k in the order the
\* commit object records them (all of them older: numbered above k).  The
\* k-th commit of the repository at url u has hash <<u, k>>.
Hash(u, k) == <<u, k>>

\* a history without merges: every commit but the last has the next as parent
Linear(n) == [k \in 1..n |-> IF k < n THEN <<k + 1>> ELSE <<>>]

\* the parent lists a commit k of a history of n commits can record: none
\* (a root), one, or two different ones (a merge)
ParentLists(k, n) ==
    {<<>>} \cup {<<a>> : a \in (k+1)..n}
           \cup {pl \in ((k+1)..n) \X ((k+1)..n) : pl[1] # pl[2]}

\* the histories of n commits, as sequences of parent lists from commit k on
RECURSIVE ParentChoices(_, _)
ParentChoices(k, n) ==
    IF k > n THEN {<<>>}
    ELSE {<<pl>> \o rest : pl \in ParentLists(k, n), rest \in ParentChoices(k + 1, n)}

\* the order in which the iterator of repo.Log (go-git's default order, the
\* pre-order iterator) yields the commits: it keeps a stack of parent
\* iterators, takes the next parent of the top one, drops it when it was
\* seen before, and pushes the iterator of its parents
RECURSIVE PreorderFrom(_, _, _)
PreorderFrom(par, stack, seen) ==
    IF stack = <<>> THEN <<>>
    ELSE LET top == stack[Len(stack)]
             popped == SubSeq(stack, 1, Len(stack) - 1)
         IN IF top = <<>> THEN PreorderFrom(par, popped, seen)
            ELSE LET c == Head(top)
                     rest == Append(popped, Tail(top))
                 IN IF c \in seen THEN PreorderFrom(par, rest, seen)
                    ELSE <<c>> \o PreorderFrom(par,
                                      IF par[c] # <<>> THEN Append(rest, par[c]) ELSE rest,
                                      seen \cup {c})

\* the elements of a set of numbers in ascending order
RECURSIVE SortedSeq(_)
SortedSeq(S) ==
    IF S = {} THEN <<>>
    ELSE LET m == CHOOSE x \in S : \A y \in S : x <= y
         IN <<m>> \o SortedSeq(S \ {m})

VARIABLES
    nCommits,      \* number of commits of every repository
    parents,       \* the parent lists of the commits 1..nCommits
    firstBroken,   \* the commit whose object cannot be read, 0 if none
    statsBad,      \* the commit whose Stats() fails, 0 if none
    refsOk,        \* repo.References() succeeds
    refs,          \* the references of every repository directory, in the
                   \* order repo.References() enumerates them
    store,         \* repos/<id>: [st: absent | partial | full, url: cloned from]
    kind,          \* handler serving the request
    pc,            \* position of the request's goroutine in its handler
    url,           \* req.RepoURL
    rid,           \* repoID / req.RepoID / refID
    events,        \* what the handler passed to sendSSEMessage, in call order
    nDelivered,    \* how many of these reached the client
    connected,     \* the client still reads the response
    idx,           \* commits obtained from the log iterator so far
    resp,          \* HTTP status of a non-streaming response, 0 if none yet
    path,          \* branch taken after os.Stat: none | clone | reuse
    ranClone,      \* the request's PlainClone started to materialize the directory
    acquired,      \* how the request came by its repository: none, clonefailed,
                   \* openfailed, or the state of the directory it cloned or opened
    seenStore,     \* state of the directory when the request looked at it (os.Stat)
    doneBefore,    \* requests that had returned when this one arrived
    body           \* JSON body of a non-streaming response

\* the page of RepoAnalyzer: the state of the component, and what belongs
\* to each call of handleSubmit that got past its guard (calls are numbered
\* in the order they are made)
VARIABLES
    repoUrl,            \* useState: the text of the input
    messages,           \* useState: the message list
    isLoading,          \* useState
    error,              \* useState: NoError or the error shown
    abortControllerRef, \* useRef: the call whose controller it holds, 0 for null
    submits,            \* submit events of the form so far
    callPc,             \* where a call stands: none | fetch | json | read | returned
    signalAborted,      \* controller.signal.aborted of the call
    buffer,             \* let buffer of the call
    closureMessages,    \* messages as the render that made the call's handler saw it
    wire,               \* bytes of the call's response body not yet delivered
    decoderHeld,        \* bytes the call's TextDecoderStream holds back
    framed              \* the events the server framed into the call's response

analyzerVars == <<repoUrl, messages, isLoading, error, abortControllerRef, submits,
                  callPc, signalAborted, buffer, closureMessages, wire, decoderHeld,
                  framed>>

Calls == 1..MaxSubmits

NoError == [null |-> TRUE]

\* the page has been loaded
NoAnalyzer ==
    /\ repoUrl = <<>>
    /\ messages = <<>>
    /\ isLoading = FALSE
    /\ error = NoError
    /\ abortControllerRef = 0
    /\ submits = 0
    /\ callPc = [r \in Calls |-> "none"]
    /\ signalAborted = [r \in Calls |-> FALSE]
    /\ buffer = [r \in Calls |-> <<>>]
    /\ closureMessages = [r \in Calls |-> <<>>]
    /\ wire = [r \in Calls |-> <<>>]
    /\ decoderHeld = [r \in Calls |-> <<>>]
    /\ framed = [r \in Calls |-> <<>>]

\* the dashboard page (Home): the state of the component that the commit
\* list and the playback read and write, and its two requests
VARIABLES
    commits,            \* useState: the commit list
    loading,            \* useState
    homeError,          \* useState error: TRUE when a message is set
    isPlaying,          \* useState
    currentCommitIndex, \* useState
    fetchData,          \* the call of fetchData: pending | returned
    eventSource,        \* the EventSource on /stream: open | closed
    streamed,           \* events the EventSource has delivered to onmessage
    intervalLength,     \* commits.length as the live interval's callback closed
                        \* over it, 0 when no interval is set
    lastHandler         \* the handler or callback that ran last, for a tick
                        \* with what its updater returned

dashboardVars == <<commits, loading, homeError, isPlaying, currentCommitIndex,
                   fetchData, eventSource, streamed, intervalLength, lastHandler>>

\* the dashboard has been mounted: the first effect has called fetchData,
\* which is waiting for its three responses, and has opened the EventSource
NoDashboard ==
    /\ commits = <<>>
    /\ loading = TRUE
    /\ homeError = FALSE
    /\ isPlaying = FALSE
    /\ currentCommitIndex = 0
    /\ fetchData = "pending"
    /\ eventSource = "open"
    /\ streamed = 0
    /\ intervalLength = 0
    /\ lastHandler = "mount"

serverVars == <<nCommits, parents, firstBroken, statsBad, refsOk, refs, store, kind, pc,
                url, rid, events,
                nDelivered, connected, idx, resp, path, ranClone, acquired, seenStore,
                doneBefore, body>>

clientVars == <<analyzerVars, dashboardVars>>

\* no page of a client is open
NoClients == NoAnalyzer /\ NoDashboard

vars == <<serverVars, clientVars>>

repoVars == <<nCommits, parents, firstBroken, statsBad, refsOk, refs>>

\* the commits in the order the iterator of repo.Log(From: HEAD) yields them
LogOrder == PreorderFrom(parents, << <<1>> >>, {})

\* the commits the iterator yields before it ends or fails: it fails when
\* the commit it is about to yield cannot be read
YieldedCommits ==
    LET bad == {i \in 1..Len(LogOrder) : LogOrder[i] = firstBroken}
    IN IF bad = {} THEN LogOrder
       ELSE SubSeq(LogOrder, 1, (CHOOSE i \in bad : TRUE) - 1)

\* the files of the tree of commit k: every commit adds one file, named
\* after it, to the files of the trees of its parents
RECURSIVE Tree(_)
Tree(k) == {k} \cup UNION {Tree(parents[k][i]) : i \in DOMAIN parents[k]}

\* the stats of the patch between two trees: one for every file that is in
\* one of them only, in path order
Diff(from, to) ==
    LET changed == SortedSeq((to \ from) \cup (from \ to))
    IN [i \in 1..Len(changed) |->
           [file |-> changed[i],
            additions |-> IF changed[i] \in to THEN 1 ELSE 0,
            deletions |-> IF changed[i] \in from THEN 1 ELSE 0]]

\* object.Commit.Stats() of commit k when it succeeds: the patch from the
\* tree of the first parent (the empty tree for a commit without parents)
\* to the tree of the commit
FileStats(k) ==
    Diff(IF parents[k] = <<>> THEN {} ELSE Tree(parents[k][1]), Tree(k))

Absent == [st |-> "absent", url |-> NoUrl]

\* the server has started and no request has arrived
NoRequests ==
    /\ kind = [s \in Sessions |-> "none"]
    /\ pc = [s \in Sessions |-> "idle"]
    /\ url = [s \in Sessions |-> NoUrl]
    /\ rid = [s \in Sessions |-> <<>>]
    /\ events = [s \in Sessions |-> <<>>]
    /\ nDelivered = [s \in Sessions |-> 0]
    /\ connected = [s \in Sessions |-> TRUE]
    /\ idx = [s \in Sessions |-> 0]
    /\ resp = [s \in Sessions |-> 0]
    /\ path = [s \in Sessions |-> "none"]
    /\ ranClone = [s \in Sessions |-> FALSE]
    /\ acquired = [s \in Sessions |-> "none"]
    /\ seenStore = [s \in Sessions |-> "none"]
    /\ doneBefore = [s \in Sessions |-> {}]
    /\ body = [s \in Sessions |-> <<>>]

Init ==
    /\ nCommits \in 1..MaxCommits
    /\ parents = Linear(nCommits)
    /\ firstBroken \in 0..nCommits
    /\ statsBad \in 0..nCommits
    /\ refsOk \in BOOLEAN
    /\ refs = ClonedRefs
    /\ store = [i \in RepoIds |-> Absent]
    /\ NoRequests
    /\ NoClients

\* request s is the next to arrive
arrives(s) == pc[s] = "idle" /\ \A t \in Sessions : t < s => pc[t] # "idle"

\* ------------------------------------------------------------ the event sink
\* sendSSEMessage: marshal, write "event:" and "data:" lines, flush.  The
\* results of the writes are not looked at, so a write to a connection the
\* client has left is lost and the caller goes on.
emit(s, msgs) ==
    /\ events' = [events EXCEPT ![s] = @ \o msgs]
    /\ nDelivered' = [nDelivered EXCEPT ![s] = IF connected[s] THEN @ + Len(msgs) ELSE @]

sendSSEMessage(s, eventType, data) == emit(s, <<[type |-> eventType, data |-> data]>>)

\* the sends of s of which sendSSEMessage reported a failure to its caller:
\* the function has no result, and what fmt.Fprintf returns is dropped
reportedFailures(s) == {}

noSend == UNCHANGED <<events, nDelivered>>

\* the handler function returns
return(s) == pc' = [pc EXCEPT ![s] = "done"]

goto(s, l) == pc' = [pc EXCEPT ![s] = l]

\* getBranches: short names of the references for which IsBranch() holds,
\* in the order the reference iterator yields them
getBranches == BranchNames(refs)

\* commitData with the slip of setting an empty list when Stats() fails
commitData_emptyList(u, k) ==
    [hash |-> Hash(u, k),
     modifications |-> IF k = statsBad THEN <<>> ELSE FileStats(k)]

\* commitData of RepoHandler for the k-th commit of the repository at u:
\* "modifications" is set only when c.Stats() returned no error
commitData(u, k) ==
    IF k = statsBad
    THEN [hash |-> Hash(u, k)]
    ELSE [hash |-> Hash(u, k), modifications |-> FileStats(k)]

\* ------------------------------------------------------------- RepoHandler
\* decode the request, derive repoID, set the SSE headers, first status
RepoHandler_Start(s, u) ==
    /\ arrives(s)
    /\ kind' = [kind EXCEPT ![s] = "repo"]
    /\ url' = [url EXCEPT ![s] = u]
    /\ rid' = [rid EXCEPT ![s] = RepoIDOf(u)]
    /\ doneBefore' = [doneBefore EXCEPT ![s] = {t \in Sessions : pc[t] = "done"}]
    /\ sendSSEMessage(s, "status",
           [message |-> "Starting repository processing", repoId |-> RepoIDOf(u)])
    /\ goto(s, "stat")
    /\ UNCHANGED <<clientVars, repoVars, store, connected, idx, resp, path, ranClone,
                   acquired, seenStore, body>>

\* RepoHandler_Stat with the slip of cloning whatever os.Stat returned
RepoHandler_Stat_alwaysClone(s) ==
    /\ kind[s] = "repo" /\ pc[s] = "stat"
    /\ seenStore' = [seenStore EXCEPT ![s] = store[rid[s]].st]
    /\ sendSSEMessage(s, "status", [message |-> "Cloning repository", repoUrl |-> url[s]])
    /\ path' = [path EXCEPT ![s] = "clone"]
    /\ goto(s, "clone")
    /\ UNCHANGED <<clientVars, repoVars, store, kind, url, rid, connected, idx, resp,
                   ranClone, acquired, doneBefore, body>>

\* RepoHandler_Stat with the slip of a flag shared by all requests: the
\* directory counts as existing once any repository has been cloned
RepoHandler_Stat_sharedFlag(s) ==
    /\ kind[s] = "repo" /\ pc[s] = "stat"
    /\ seenStore' = [seenStore EXCEPT ![s] = store[rid[s]].st]
    /\ IF \A i \in RepoIds : store[i].st = "absent"
       THEN /\ sendSSEMessage(s, "status",
                   [message |-> "Cloning repository", repoUrl |-> url[s]])
            /\ path' = [path EXCEPT ![s] = "clone"]
            /\ goto(s, "clone")
       ELSE /\ sendSSEMessage(s, "status",
                   [message |-> "Repository already exists, opening existing repository",
                    repoId |-> rid[s]])
            /\ path' = [path EXCEPT ![s] = "reuse"]
            /\ goto(s, "open")
    /\ UNCHANGED <<clientVars, repoVars, store, kind, url, rid, connected, idx, resp,
                   ranClone, acquired, doneBefore, body>>

\* os.Stat(repoPath) and the branch on os.IsNotExist
RepoHandler_Stat(s) ==
    /\ kind[s] = "repo" /\ pc[s] = "stat"
    /\ seenStore' = [seenStore EXCEPT ![s] = store[rid[s]].st]
    /\ IF store[rid[s]].st = "absent"
       THEN /\ sendSSEMessage(s, "status",
                   [message |-> "Cloning repository", repoUrl |-> url[s]])
            /\ path' = [path EXCEPT ![s] = "clone"]
            /\ goto(s, "clone")
       ELSE /\ sendSSEMessage(s, "status",
                   [message |-> "Repository already exists, opening existing repository",
                    repoId |-> rid[s]])
            /\ path' = [path EXCEPT ![s] = "reuse"]
            /\ goto(s, "open")
    /\ UNCHANGED <<clientVars, repoVars, store, kind, url, rid, connected, idx, resp,
                   ranClone, acquired, doneBefore, body>>

\* git.PlainClone is called: it creates and initializes the directory, or
\* returns ErrRepositoryAlreadyExists when the path already holds a repository
RepoHandler_Clone(s) ==
    /\ kind[s] = "repo" /\ pc[s] = "clone"
    /\ IF store[rid[s]].st = "absent"
       THEN /\ store' = [store EXCEPT ![rid[s]] = [st |-> "partial", url |-> url[s]]]
            /\ ranClone' = [ranClone EXCEPT ![s] = TRUE]
            /\ noSend
            /\ goto(s, "cloning")
            /\ UNCHANGED acquired
       ELSE /\ sendSSEMessage(s, "error", [message |-> "Clone failed"])
            /\ acquired' = [acquired EXCEPT ![s] = "clonefailed"]
            /\ return(s)
            /\ UNCHANGED <<store, ranClone>>
    /\ UNCHANGED <<clientVars, repoVars, kind, url, rid, connected, idx, resp, path,
                   seenStore, doneBefore, body>>

\* RepoHandler_Cloned with the slip of a missing return after the error event
RepoHandler_Cloned_noReturn(s) ==
    /\ kind[s] = "repo" /\ pc[s] = "cloning"
    /\ \E ok \in BOOLEAN :
          IF ok
          THEN /\ store' = [store EXCEPT ![rid[s]].st = "full"]
               /\ acquired' = [acquired EXCEPT ![s] = "full"]
               /\ sendSSEMessage(s, "status",
                      [message |-> "Repository cloned successfully", repoId |-> rid[s]])
               /\ goto(s, "head")
          ELSE /\ store' = [store EXCEPT ![rid[s]] = Absent]
               /\ sendSSEMessage(s, "error", [message |-> "Clone failed"])
               /\ acquired' = [acquired EXCEPT ![s] = "clonefailed"]
               /\ goto(s, "head")
    /\ UNCHANGED <<clientVars, repoVars, kind, url, rid, connected, idx, resp, path,
                   ranClone, seenStore, doneBefore, body>>

\* git.PlainClone returns: the repository is complete, or the fetch failed
\* and what was created is removed
RepoHandler_Cloned(s) ==
    /\ kind[s] = "repo" /\ pc[s] = "cloning"
    /\ \E ok \in BOOLEAN :
          IF ok
          THEN /\ store' = [store EXCEPT ![rid[s]].st = "full"]
               /\ acquired' = [acquired EXCEPT ![s] = "full"]
               /\ sendSSEMessage(s, "status",
                      [message |-> "Repository cloned successfully", repoId |-> rid[s]])
               /\ goto(s, "head")
          ELSE /\ store' = [store EXCEPT ![rid[s]] = Absent]
               /\ sendSSEMessage(s, "error", [message |-> "Clone failed"])
               /\ acquired' = [acquired EXCEPT ![s] = "clonefailed"]
               /\ return(s)
    /\ UNCHANGED <<clientVars, repoVars, kind, url, rid, connected, idx, resp, path,
                   ranClone, seenStore, doneBefore, body>>

\* git.PlainOpen(repoPath) on the reuse path
RepoHandler_Open(s) ==
    /\ kind[s] = "repo" /\ pc[s] = "open"
    /\ \E ok \in BOOLEAN :
          /\ store[rid[s]].st = "full" => ok
          /\ store[rid[s]].st = "absent" => ~ok
          /\ IF ok
             THEN /\ acquired' = [acquired EXCEPT ![s] = store[rid[s]].st]
                  /\ noSend
                  /\ goto(s, "head")
             ELSE /\ sendSSEMessage(s, "error", [message |-> "Failed to open repository"])
                  /\ acquired' = [acquired EXCEPT ![s] = "openfailed"]
                  /\ return(s)
    /\ UNCHANGED <<clientVars, repoVars, store, kind, url, rid, connected, idx, resp,
                   path, ranClone, seenStore, doneBefore, body>>

\* RepoHandler_Head with the slip of returning without the error event
RepoHandler_Head_silent(s) ==
    /\ kind[s] = "repo" /\ pc[s] = "head"
    /\ IF store[rid[s]].st = "full"
       THEN /\ sendSSEMessage(s, "status", [message |-> "Fetching branches"])
            /\ goto(s, "branches")
       ELSE /\ noSend
            /\ return(s)
    /\ UNCHANGED <<clientVars, repoVars, store, kind, url, rid, connected, idx, resp,
                   path, ranClone, acquired, seenStore, doneBefore, body>>

\* repo.Head(), then the "Fetching branches" status
RepoHandler_Head(s) ==
    /\ kind[s] = "repo" /\ pc[s] = "head"
    /\ IF store[rid[s]].st = "full"
       THEN /\ sendSSEMessage(s, "status", [message |-> "Fetching branches"])
            /\ goto(s, "branches")
       ELSE /\ sendSSEMessage(s, "error", [message |-> "Failed to get HEAD reference"])
            /\ return(s)
    /\ UNCHANGED <<clientVars, repoVars, store, kind, url, rid, connected, idx, resp,
                   path, ranClone, acquired, seenStore, doneBefore, body>>

\* RepoHandler_Branches with a return after the error event for the branches
RepoHandler_Branches_fatal(s) ==
    /\ kind[s] = "repo" /\ pc[s] = "branches"
    /\ emit(s, IF ~refsOk
               THEN <<[type |-> "error", data |-> [message |-> "Failed to get branches"]]>>
               ELSE <<[type |-> "branches", data |-> getBranches],
                      [type |-> "status", data |-> [message |-> "Fetching commits history"]]>>
                    \o IF firstBroken = 1
                       THEN <<[type |-> "error",
                               data |-> [message |-> "Failed to get commit logs"]]>>
                       ELSE <<>>)
    /\ IF ~refsOk \/ firstBroken = 1 THEN return(s) ELSE goto(s, "walk")
    /\ UNCHANGED <<clientVars, repoVars, store, kind, url, rid, connected, idx, resp,
                   path, ranClone, acquired, seenStore, doneBefore, body>>

\* getBranches(repo) and the branches event, or the error event without a
\* return; then the "Fetching commits history" status and
\* repo.Log(From: ref.Hash()), which reads the HEAD commit object
RepoHandler_Branches(s) ==
    /\ kind[s] = "repo" /\ pc[s] = "branches"
    /\ emit(s, << IF refsOk
                  THEN [type |-> "branches", data |-> getBranches]
                  ELSE [type |-> "error", data |-> [message |-> "Failed to get branches"]],
                  [type |-> "status", data |-> [message |-> "Fetching commits history"]] >>
               \o IF firstBroken = 1
                  THEN <<[type |-> "error", data |-> [message |-> "Failed to get commit logs"]]>>
                  ELSE <<>>)
    /\ IF firstBroken = 1 THEN return(s) ELSE goto(s, "walk")
    /\ UNCHANGED <<clientVars, repoVars, store, kind, url, rid, connected, idx, resp,
                   path, ranClone, acquired, seenStore, doneBefore, body>>

\* RepoHandler_Walk with the slip of a progress status after every commit
RepoHandler_Walk_progressStatus(s) ==
    /\ kind[s] = "repo" /\ pc[s] = "walk"
    /\ IF idx[s] = nCommits
       THEN /\ sendSSEMessage(s, "complete",
                   [message |-> "Repository analysis complete", repoId |-> rid[s]])
            /\ return(s)
            /\ UNCHANGED idx
       ELSE \E c \in {LogOrder[idx[s] + 1]} :
               IF c = firstBroken
               THEN /\ sendSSEMessage(s, "error", [message |-> "Error processing commits"])
                    /\ goto(s, "complete")
                    /\ UNCHANGED idx
               ELSE /\ emit(s, <<[type |-> "commit",
                                  data |-> commitData(store[rid[s]].url, c)],
                                 [type |-> "status", data |-> [message |-> "Commit sent"]]>>)
                    /\ idx' = [idx EXCEPT ![s] = @ + 1]
                    /\ UNCHANGED pc
    /\ UNCHANGED <<clientVars, repoVars, store, kind, url, rid, connected, resp,
                   path, ranClone, acquired, seenStore, doneBefore, body>>

\* one round of iter.ForEach, the call of the iterator and the callback
\* taken together: the iterator is exhausted (ForEach returns nil and the
\* complete event follows), the next commit cannot be read (ForEach returns
\* the error and the error event follows), or the callback runs
RepoHandler_Walk(s) ==
    /\ kind[s] = "repo" /\ pc[s] = "walk"
    /\ IF idx[s] = nCommits
       THEN /\ sendSSEMessage(s, "complete",
                   [message |-> "Repository analysis complete", repoId |-> rid[s]])
            /\ return(s)
            /\ UNCHANGED idx
       ELSE \E c \in {LogOrder[idx[s] + 1]} :
               IF c = firstBroken
               THEN /\ sendSSEMessage(s, "error", [message |-> "Error processing commits"])
                    /\ goto(s, "complete")
                    /\ UNCHANGED idx
               ELSE /\ sendSSEMessage(s, "commit", commitData(store[rid[s]].url, c))
                    /\ idx' = [idx EXCEPT ![s] = @ + 1]
                    /\ UNCHANGED pc
    /\ UNCHANGED <<clientVars, repoVars, store, kind, url, rid, connected, resp,
                   path, ranClone, acquired, seenStore, doneBefore, body>>

\* the complete event that follows the error event of a failed ForEach
RepoHandler_Complete(s) ==
    /\ kind[s] = "repo" /\ pc[s] = "complete"
    /\ sendSSEMessage(s, "complete",
           [message |-> "Repository analysis complete", repoId |-> rid[s]])
    /\ return(s)
    /\ UNCHANGED <<clientVars, repoVars, store, kind, url, rid, connected, idx, resp,
                   path, ranClone, acquired, seenStore, doneBefore, body>>

\* RepoHandler_ForEachNext with the slip of taking the next commit from the
\* iterator without running the callback on the one in hand
RepoHandler_ForEachNext_buffered(s) ==
    /\ kind[s] = "repo" /\ pc[s] = "walk"
    /\ IF idx[s] = nCommits
       THEN /\ sendSSEMessage(s, "complete",
                   [message |-> "Repository analysis complete", repoId |-> rid[s]])
            /\ return(s)
            /\ UNCHANGED idx
       ELSE /\ idx' = [idx EXCEPT ![s] = @ + 1]
            /\ noSend
            /\ UNCHANGED pc
    /\ UNCHANGED <<clientVars, repoVars, store, kind, url, rid, connected, resp,
                   path, ranClone, acquired, seenStore, doneBefore, body>>

\* iter.ForEach calls the iterator: it is exhausted (ForEach returns nil and
\* the complete event follows), the next commit cannot be read (ForEach
\* returns the error and the error event follows), or it yields the next
\* commit, on which ForEach calls the callback
RepoHandler_ForEachNext(s) ==
    /\ kind[s] = "repo" /\ pc[s] = "walk"
    /\ IF idx[s] = nCommits
       THEN /\ sendSSEMessage(s, "complete",
                   [message |-> "Repository analysis complete", repoId |-> rid[s]])
            /\ return(s)
            /\ UNCHANGED idx
       ELSE IF LogOrder[idx[s] + 1] = firstBroken
       THEN /\ sendSSEMessage(s, "error", [message |-> "Error processing commits"])
            /\ goto(s, "complete")
            /\ UNCHANGED idx
       ELSE /\ idx' = [idx EXCEPT ![s] = @ + 1]
            /\ noSend
            /\ goto(s, "callback")
    /\ UNCHANGED <<clientVars, repoVars, store, kind, url, rid, connected, resp,
                   path, ranClone, acquired, seenStore, doneBefore, body>>

\* the callback of iter.ForEach on the commit in hand: commitData, c.Stats(),
\* sendSSEMessage (write and flush), the pause, return nil
RepoHandler_ForEachCallback(s) ==
    /\ kind[s] = "repo" /\ pc[s] = "callback"
    /\ \E c \in {LogOrder[idx[s]]} :
          sendSSEMessage(s, "commit", commitData(store[rid[s]].url, c))
    /\ goto(s, "walk")
    /\ UNCHANGED <<clientVars, repoVars, store, kind, url, rid, connected, idx, resp,
                   path, ranClone, acquired, seenStore, doneBefore, body>>

\* the client of a /repo stream goes away while the handler runs
Disconnect(s) ==
    /\ kind[s] = "repo" /\ pc[s] \notin {"idle", "done"}
    /\ connected[s]
    /\ connected' = [connected EXCEPT ![s] = FALSE]
    /\ UNCHANGED <<clientVars, repoVars, store, kind, pc, url, rid, events, nDelivered, idx, resp,
                   path, ranClone, acquired, seenStore, doneBefore, body>>

RepoHandler(s) ==
    \/ \E u \in Urls : RepoHandler_Start(s, u)
    \/ RepoHandler_Stat(s)
    \/ RepoHandler_Clone(s)
    \/ RepoHandler_Cloned(s)
    \/ RepoHandler_Open(s)
    \/ RepoHandler_Head(s)
    \/ RepoHandler_Branches(s)
    \/ RepoHandler_Walk(s)
    \/ RepoHandler_Complete(s)

\* ------------------------------------------------------------ CloneHandler
\* decode the request; repoPath is built from the RepoID the client sent
CloneHandler_Start(s, u) ==
    /\ arrives(s)
    /\ kind' = [kind EXCEPT ![s] = "clone"]
    /\ url' = [url EXCEPT ![s] = u]
    /\ rid' = [rid EXCEPT ![s] = RepoIDOf(u)]
    /\ doneBefore' = [doneBefore EXCEPT ![s] = {t \in Sessions : pc[t] = "done"}]
    /\ goto(s, "stat")
    /\ noSend
    /\ UNCHANGED <<clientVars, repoVars, store, connected, idx, resp, path, ranClone, acquired,
                   seenStore, body>>

\* os.Stat(repoPath): clone when it does not exist, else answer 200 at once
CloneHandler_Stat(s) ==
    /\ kind[s] = "clone" /\ pc[s] = "stat"
    /\ seenStore' = [seenStore EXCEPT ![s] = store[rid[s]].st]
    /\ IF store[rid[s]].st = "absent"
       THEN /\ path' = [path EXCEPT ![s] = "clone"]
            /\ goto(s, "clone")
            /\ UNCHANGED resp
       ELSE /\ path' = [path EXCEPT ![s] = "reuse"]
            /\ resp' = [resp EXCEPT ![s] = 200]
            /\ return(s)
    /\ noSend
    /\ UNCHANGED <<clientVars, repoVars, store, kind, url, rid, connected, idx, ranClone,
                   acquired, doneBefore, body>>

\* git.PlainClone is called
CloneHandler_Clone(s) ==
    /\ kind[s] = "clone" /\ pc[s] = "clone"
    /\ IF store[rid[s]].st = "absent"
       THEN /\ store' = [store EXCEPT ![rid[s]] = [st |-> "partial", url |-> url[s]]]
            /\ ranClone' = [ranClone EXCEPT ![s] = TRUE]
            /\ goto(s, "cloning")
            /\ UNCHANGED <<resp, acquired>>
       ELSE /\ resp' = [resp EXCEPT ![s] = 500]
            /\ acquired' = [acquired EXCEPT ![s] = "clonefailed"]
            /\ return(s)
            /\ UNCHANGED <<store, ranClone>>
    /\ noSend
    /\ UNCHANGED <<clientVars, repoVars, kind, url, rid, connected, idx, path,
                   seenStore, doneBefore, body>>

\* git.PlainClone returns; 200 "Repository cloned successfully" or 500
CloneHandler_Cloned(s) ==
    /\ kind[s] = "clone" /\ pc[s] = "cloning"
    /\ \E ok \in BOOLEAN :
          IF ok
          THEN /\ store' = [store EXCEPT ![rid[s]].st = "full"]
               /\ acquired' = [acquired EXCEPT ![s] = "full"]
               /\ resp' = [resp EXCEPT ![s] = 200]
          ELSE /\ store' = [store EXCEPT ![rid[s]] = Absent]
               /\ acquired' = [acquired EXCEPT ![s] = "clonefailed"]
               /\ resp' = [resp EXCEPT ![s] = 500]
    /\ return(s)
    /\ noSend
    /\ UNCHANGED <<clientVars, repoVars, kind, url, rid, connected, idx, path, ranClone,
                   seenStore, doneBefore, body>>

CloneHandler(s) ==
    \/ \E u \in Urls : CloneHandler_Start(s, u)
    \/ CloneHandler_Stat(s)
    \/ CloneHandler_Clone(s)
    \/ CloneHandler_Cloned(s)

\* ------------------------------------------------- getRepo, CommitsHandler
\* the commits CommitsHandler collects: ForEach appends until the iterator
\* ends or fails, and the error ForEach returns is dropped
commitsCollected(u) ==
    [i \in 1..Len(YieldedCommits) |-> [hash |-> Hash(u, YieldedCommits[i])]]

\* the handlers that answer from a repository directory through getRepo
ReadOnly == {"commits", "branches", "modifications"}

\* read the repoId query parameter; getRepo: git.PlainOpen(repoPath)
CommitsHandler_Start(s, id) ==
    /\ arrives(s)
    /\ kind' = [kind EXCEPT ![s] = "commits"]
    /\ rid' = [rid EXCEPT ![s] = id]
    /\ doneBefore' = [doneBefore EXCEPT ![s] = {t \in Sessions : pc[t] = "done"}]
    /\ goto(s, "open")
    /\ noSend
    /\ UNCHANGED <<clientVars, repoVars, store, url, connected, idx, resp, path, ranClone,
                   acquired, seenStore, body>>

\* getRepo_Open with the slip of initializing a repository in a directory
\* that does not exist
getRepo_Open_creates(s) ==
    /\ kind[s] \in ReadOnly /\ pc[s] = "open"
    /\ IF store[rid[s]].st = "absent"
       THEN /\ store' = [store EXCEPT ![rid[s]] = [st |-> "partial", url |-> NoUrl]]
            /\ acquired' = [acquired EXCEPT ![s] = "partial"]
       ELSE /\ acquired' = [acquired EXCEPT ![s] = store[rid[s]].st]
            /\ UNCHANGED store
    /\ goto(s, "head")
    /\ noSend
    /\ UNCHANGED <<clientVars, repoVars, kind, url, rid, connected, idx, resp, path,
                   ranClone, seenStore, doneBefore, body>>

\* getRepo: git.PlainOpen(repoPath); 500 when it fails
getRepo_Open(s) ==
    /\ kind[s] \in ReadOnly /\ pc[s] = "open"
    /\ \E ok \in BOOLEAN :
          /\ store[rid[s]].st = "full" => ok
          /\ store[rid[s]].st = "absent" => ~ok
          /\ IF ok
             THEN /\ acquired' = [acquired EXCEPT ![s] = store[rid[s]].st]
                  /\ goto(s, "head")
                  /\ UNCHANGED resp
             ELSE /\ resp' = [resp EXCEPT ![s] = 500]
                  /\ acquired' = [acquired EXCEPT ![s] = "openfailed"]
                  /\ return(s)
    /\ noSend
    /\ UNCHANGED <<clientVars, repoVars, store, kind, url, rid, connected, idx, path, ranClone,
                   seenStore, doneBefore, body>>

\* getRepo: repo.Head(); 500 when it fails
getRepo_Head(s) ==
    /\ kind[s] \in ReadOnly /\ pc[s] = "head"
    /\ IF store[rid[s]].st = "full"
       THEN /\ goto(s, "log")
            /\ UNCHANGED resp
       ELSE /\ resp' = [resp EXCEPT ![s] = 500]
            /\ return(s)
    /\ noSend
    /\ UNCHANGED <<clientVars, repoVars, store, kind, url, rid, connected, idx, path, ranClone,
                   acquired, seenStore, doneBefore, body>>

\* repo.Log, iter.ForEach, and the JSON answer
CommitsHandler_Respond(s) ==
    /\ kind[s] = "commits" /\ pc[s] = "log"
    /\ IF firstBroken = 1
       THEN /\ resp' = [resp EXCEPT ![s] = 500]
            /\ UNCHANGED body
       ELSE /\ resp' = [resp EXCEPT ![s] = 200]
            /\ body' = [body EXCEPT ![s] = commitsCollected(store[rid[s]].url)]
    /\ return(s)
    /\ noSend
    /\ UNCHANGED <<clientVars, repoVars, store, kind, url, rid, connected, idx, path, ranClone,
                   acquired, seenStore, doneBefore>>

CommitsHandler(s) ==
    \/ \E id \in RepoIds : CommitsHandler_Start(s, id)
    \/ getRepo_Open(s)
    \/ getRepo_Head(s)
    \/ CommitsHandler_Respond(s)

\* --------------------------------------------------------- BranchesHandler
\* read the repoId query parameter; getRepo follows
BranchesHandler_Start(s, id) ==
    /\ arrives(s)
    /\ kind' = [kind EXCEPT ![s] = "branches"]
    /\ rid' = [rid EXCEPT ![s] = id]
    /\ doneBefore' = [doneBefore EXCEPT ![s] = {t \in Sessions : pc[t] = "done"}]
    /\ goto(s, "open")
    /\ noSend
    /\ UNCHANGED <<clientVars, repoVars, store, url, connected, idx, resp, path, ranClone,
                   acquired, seenStore, body>>

\* repo.References(), the loop over the references, and the JSON answer
BranchesHandler_Respond(s) ==
    /\ kind[s] = "branches" /\ pc[s] = "log"
    /\ IF refsOk
       THEN /\ resp' = [resp EXCEPT ![s] = 200]
            /\ body' = [body EXCEPT ![s] = BranchNames(refs)]
       ELSE /\ resp' = [resp EXCEPT ![s] = 500]
            /\ UNCHANGED body
    /\ return(s)
    /\ noSend
    /\ UNCHANGED <<clientVars, repoVars, store, kind, url, rid, connected, idx, path, ranClone,
                   acquired, seenStore, doneBefore>>

BranchesHandler(s) ==
    \/ \E id \in RepoIds : BranchesHandler_Start(s, id)
    \/ BranchesHandler_Respond(s)

\* ------------------------------------------------ FileModificationsHandler
\* the entries FileModificationsHandler collects for the commits q: those
\* of the stats of every commit whose Stats() succeeds, each with the hash
\* of its commit
RECURSIVE fileModifications(_, _)
fileModifications(u, q) ==
    IF q = <<>> THEN <<>>
    ELSE (IF Head(q) = statsBad THEN <<>>
          ELSE [i \in 1..Len(FileStats(Head(q))) |->
                   [file |-> FileStats(Head(q))[i].file,
                    additions |-> FileStats(Head(q))[i].additions,
                    deletions |-> FileStats(Head(q))[i].deletions,
                    commitHash |-> Hash(u, Head(q))]])
         \o fileModifications(u, Tail(q))

\* read the repoId query parameter; getRepo follows
FileModificationsHandler_Start(s, id) ==
    /\ arrives(s)
    /\ kind' = [kind EXCEPT ![s] = "modifications"]
    /\ rid' = [rid EXCEPT ![s] = id]
    /\ doneBefore' = [doneBefore EXCEPT ![s] = {t \in Sessions : pc[t] = "done"}]
    /\ goto(s, "open")
    /\ noSend
    /\ UNCHANGED <<clientVars, repoVars, store, url, connected, idx, resp, path, ranClone,
                   acquired, seenStore, body>>

\* repo.Log, iter.ForEach, and the JSON answer, or 500 when repo.Log or
\* iter.ForEach returned an error
FileModificationsHandler_Respond(s) ==
    /\ kind[s] = "modifications" /\ pc[s] = "log"
    /\ IF firstBroken # 0
       THEN /\ resp' = [resp EXCEPT ![s] = 500]
            /\ UNCHANGED body
       ELSE /\ resp' = [resp EXCEPT ![s] = 200]
            /\ body' = [body EXCEPT ![s] = fileModifications(store[rid[s]].url, LogOrder)]
    /\ return(s)
    /\ noSend
    /\ UNCHANGED <<clientVars, repoVars, store, kind, url, rid, connected, idx, path, ranClone,
                   acquired, seenStore, doneBefore>>

FileModificationsHandler(s) ==
    \/ \E id \in RepoIds : FileModificationsHandler_Start(s, id)
    \/ FileModificationsHandler_Respond(s)

\* ================================================== the client RepoAnalyzer
\* A step is one task of the page's event loop with the microtasks that
\* follow it: an event handler, or the continuation of a call of
\* handleSubmit after an await, up to its next await.  controller.abort()
\* rejects what the call of that controller awaits, and the call's catch
\* and finally run as microtasks of the task that called abort().
\* the state of the page as one value, for the handlers that change it in
\* several statements
Page ==
    [repoUrl |-> repoUrl, messages |-> messages, isLoading |-> isLoading,
     error |-> error, abortControllerRef |-> abortControllerRef,
     callPc |-> callPc, signalAborted |-> signalAborted, buffer |-> buffer,
     closureMessages |-> closureMessages]

\* the task ends with the page in state p
Becomes(p) ==
    /\ repoUrl' = p.repoUrl
    /\ messages' = p.messages
    /\ isLoading' = p.isLoading
    /\ error' = p.error
    /\ abortControllerRef' = p.abortControllerRef
    /\ callPc' = p.callPc
    /\ signalAborted' = p.signalAborted
    /\ buffer' = p.buffer
    /\ closureMessages' = p.closureMessages

\* addMessage: setMessages(prev => [...prev, entry])
addMessage(p, type, payload) ==
    [p EXCEPT !.messages = Append(@, Message(type, payload))]

\* cleanup with the slip of not aborting the controller
cleanup_noAbort(p) == [p EXCEPT !.isLoading = FALSE, !.error = NoError]

\* cleanup: abort the controller the ref holds, setIsLoading(false),
\* setError(null)
cleanup(p) ==
    LET a == IF p.abortControllerRef # 0
             THEN [p EXCEPT !.signalAborted[p.abortControllerRef] = TRUE]
             ELSE p
    IN [a EXCEPT !.isLoading = FALSE, !.error = NoError]

\* the finally block of call r, after which the call has returned
finally(p, r) ==
    [p EXCEPT !.isLoading = FALSE, !.abortControllerRef = 0, !.callPc[r] = "returned"]

\* the catch block of call r for an AbortError, and the finally block
catchAbort(p, r) ==
    finally(addMessage(p, InfoTag, ClientText("Request aborted by user.", <<>>)), r)

\* the catch block of call r for any other error, and the finally block
catchError(p, r, what) ==
    finally(addMessage([p EXCEPT !.error = ClientText("Error", what)],
                       ErrorTag, ClientText("Client-side Error", what)), r)

\* the microtasks after a task: every call whose controller was aborted
\* while it awaited fetch or reader.read() gets the AbortError; the one that
\* awaited response.json() catches and ignores it and throws the HTTP error
RECURSIVE settleAborted(_)
settleAborted(p) ==
    LET waiting == {r \in Calls : p.signalAborted[r]
                                  /\ p.callPc[r] \in {"fetch", "json", "read"}}
    IN IF waiting = {} THEN p
       ELSE LET r == CHOOSE x \in waiting : \A y \in waiting : x <= y
            IN settleAborted(IF p.callPc[r] = "json"
                             THEN catchError(p, r, "HTTP error")
                             ELSE catchAbort(p, r))

\* onChange of the input, which is disabled while isLoading
setRepoUrl(u) ==
    /\ ~isLoading
    /\ u # repoUrl
    /\ repoUrl' = u
    /\ UNCHANGED <<messages, isLoading, error, abortControllerRef, submits, callPc,
                   signalAborted, buffer, closureMessages, wire, decoderHeld, framed,
                   serverVars, dashboardVars>>

\* handleSubmit with the slip of a guard that does not look at isLoading
handleSubmit_noLoadingGuard ==
    /\ submits < MaxSubmits
    /\ submits' = submits + 1
    /\ IF repoUrl = <<>>
       THEN UNCHANGED <<repoUrl, messages, isLoading, error, abortControllerRef, callPc,
                        signalAborted, buffer, closureMessages>>
       ELSE \E r \in {1 + Cardinality({c \in Calls : callPc[c] # "none"})} :
               LET p1 == addMessage([cleanup(Page) EXCEPT !.messages = <<>>],
                                    InfoTag, ClientText("Starting analysis for", repoUrl))
                   p2 == [p1 EXCEPT !.isLoading = TRUE,
                                    !.abortControllerRef = r,
                                    !.callPc[r] = "fetch",
                                    !.closureMessages[r] = messages]
               IN Becomes(settleAborted(p2))
    /\ UNCHANGED <<wire, decoderHeld, framed, serverVars, dashboardVars>>

\* handleSubmit up to its await of fetch: the guard, cleanup, the new
\* message list with its first entry, setIsLoading(true), the new controller
\* in the ref, and the request
handleSubmit ==
    /\ submits < MaxSubmits
    /\ submits' = submits + 1
    /\ IF repoUrl = <<>> \/ isLoading
       THEN UNCHANGED <<repoUrl, messages, isLoading, error, abortControllerRef, callPc,
                        signalAborted, buffer, closureMessages>>
       ELSE \E r \in {1 + Cardinality({c \in Calls : callPc[c] # "none"})} :
               LET p1 == addMessage([cleanup(Page) EXCEPT !.messages = <<>>],
                                    InfoTag, ClientText("Starting analysis for", repoUrl))
                   p2 == [p1 EXCEPT !.isLoading = TRUE,
                                    !.abortControllerRef = r,
                                    !.callPc[r] = "fetch",
                                    !.closureMessages[r] = messages]
               IN Becomes(settleAborted(p2))
    /\ UNCHANGED <<wire, decoderHeld, framed, serverVars, dashboardVars>>

\* onClick of the Cancel button, which is there while isLoading
Cancel ==
    /\ isLoading
    /\ Becomes(settleAborted(cleanup(Page)))
    /\ UNCHANGED <<submits, wire, decoderHeld, framed, serverVars, dashboardVars>>

\* fetch of call r resolves: with a response that is ok, whose body will
\* bring the frames of the events es, and the call goes on to read it; or
\* with one that is not, and the call awaits response.json()
fetchResolves(r, ok, es) ==
    /\ callPc[r] = "fetch" /\ ~signalAborted[r]
    /\ IF ok
       THEN /\ callPc' = [callPc EXCEPT ![r] = "read"]
            /\ buffer' = [buffer EXCEPT ![r] = <<>>]
            /\ framed' = [framed EXCEPT ![r] = es]
            /\ wire' = [wire EXCEPT ![r] = FrameAll(es)]
       ELSE /\ callPc' = [callPc EXCEPT ![r] = "json"]
            /\ UNCHANGED <<buffer, framed, wire>>
    /\ UNCHANGED <<repoUrl, messages, isLoading, error, abortControllerRef, submits,
                   signalAborted, closureMessages, decoderHeld, serverVars, dashboardVars>>

\* response.json() of a response that is not ok settles, with the message
\* of the body or not: the call throws the error it made of it
jsonSettles(r) ==
    /\ callPc[r] = "json" /\ ~signalAborted[r]
    /\ Becomes(catchError(Page, r, "HTTP error"))
    /\ UNCHANGED <<submits, wire, decoderHeld, framed, serverVars, dashboardVars>>

\* fetch or reader.read() of call r rejects because the connection failed
connectionFails(r) ==
    /\ callPc[r] \in {"fetch", "read"} /\ ~signalAborted[r]
    /\ Becomes(catchError(Page, r, "Failed to fetch"))
    /\ UNCHANGED <<submits, wire, decoderHeld, framed, serverVars, dashboardVars>>

\* chunkArrives with the slip of a buffer that is set to the text read, not
\* extended by it
chunkArrives_noCarry(r, n) ==
    /\ callPc[r] = "read" /\ ~signalAborted[r]
    /\ n \in 1..Len(wire[r])
    /\ wire' = [wire EXCEPT ![r] = SubSeq(@, n + 1, Len(@))]
    /\ \E d \in {DecodeUTF8(decoderHeld[r] \o SubSeq(wire[r], 1, n))} :
          /\ decoderHeld' = [decoderHeld EXCEPT ![r] = d.held]
          /\ IF d.text = <<>>
             THEN UNCHANGED <<messages, buffer>>
             ELSE \E b \in {Drain(d.text, <<>>)} :
                     /\ buffer' = [buffer EXCEPT ![r] = b.buffer]
                     /\ messages' = messages \o b.out
    /\ UNCHANGED <<repoUrl, isLoading, error, abortControllerRef, submits, callPc,
                   signalAborted, closureMessages, framed, serverVars, dashboardVars>>

\* the next n bytes of the body of call r arrive: TextDecoderStream decodes
\* them with the bytes it held back; when that gives text, reader.read()
\* resolves with it, the call adds it to the buffer and handles every
\* message the buffer then holds
chunkArrives(r, n) ==
    /\ callPc[r] = "read" /\ ~signalAborted[r]
    /\ n \in 1..Len(wire[r])
    /\ wire' = [wire EXCEPT ![r] = SubSeq(@, n + 1, Len(@))]
    /\ \E d \in {DecodeUTF8(decoderHeld[r] \o SubSeq(wire[r], 1, n))} :
          /\ decoderHeld' = [decoderHeld EXCEPT ![r] = d.held]
          /\ IF d.text = <<>>
             THEN UNCHANGED <<messages, buffer>>
             ELSE \E b \in {Drain(buffer[r] \o d.text, <<>>)} :
                     /\ buffer' = [buffer EXCEPT ![r] = b.buffer]
                     /\ messages' = messages \o b.out
    /\ UNCHANGED <<repoUrl, isLoading, error, abortControllerRef, submits, callPc,
                   signalAborted, closureMessages, framed, serverVars, dashboardVars>>

\* reader.read() of call r resolves with done after the last byte: the
\* entry "Processing stream ended." unless the messages of the call's
\* closure hold a complete or error entry, break, and the finally block
streamEnds(r) ==
    /\ callPc[r] = "read" /\ ~signalAborted[r]
    /\ wire[r] = <<>>
    /\ LET terminal == \E i \in 1..Len(closureMessages[r]) :
                           closureMessages[r][i].type \in {CompleteTag, ErrorTag}
           p == IF terminal THEN Page
                ELSE addMessage(Page, InfoTag, ClientText("Processing stream ended.", <<>>))
       IN Becomes(finally(p, r))
    /\ UNCHANGED <<submits, wire, decoderHeld, framed, serverVars, dashboardVars>>

\* ------------------------------------------------ what the server can send
\* texts of messages: one with a blank line, one with a character of two
\* bytes after a space, a quotation mark, a backslash and a "<"
Texts == {<<Newline, Newline>>, <<" ", EAcute, Quote, Backslash, "<">>}

MessageData(t) == JObject(<< <<MessageTag, JString(t)>> >>)

CompleteEvent ==
    [type |-> CompleteTag,
     data |-> JObject(<< <<MessageTag, JString(<<"a">>)>>,
                         << <<"r", "e", "p", "o", "I", "d">>, JString(<<"a">>)>> >>)]

ErrorEvent == [type |-> ErrorTag, data |-> MessageData(<<"a">>)]

\* events of RepoHandler: a status with any of the texts, the branches, the
\* complete event
EventChoices ==
    {[type |-> StatusTag, data |-> MessageData(t)] : t \in Texts}
    \cup {[type |-> <<"b", "r", "a", "n", "c", "h", "e", "s">>,
            data |-> JArray(<<JString(<<"a">>)>>)],
          CompleteEvent}

\* the sequences of up to n events
RECURSIVE EventSeqs(_)
EventSeqs(n) ==
    IF n = 0 THEN {<<>>}
    ELSE LET shorter == EventSeqs(n - 1)
         IN shorter \cup {Append(q, e) : q \in {x \in shorter : Len(x) = n - 1},
                                         e \in EventChoices}

\* the responses of a server that ends its stream with a complete or an
\* error event, or without one
SessionStreams ==
    {<<[type |-> StatusTag, data |-> MessageData(<<"a">>)]>> \o end :
        end \in {<<CompleteEvent>>, <<ErrorEvent>>, <<>>}}

\* ----------------------------------------------------------- the dashboard
\* The page of src/unnamed/part_003 asks for /commits, /branches and
\* /file-modifications and opens an EventSource on /stream, all without a
\* repoId, so that both CommitsHandler and StreamHandler answer from the
\* log of the one repository getRepo("") opens.  A step is one task of the
\* page's event loop: a handler or callback with the state updates it makes.

\* a commit as the page holds it: the map CommitsHandler and StreamHandler
\* write for commit k, with new Date(commit.date) for its date; a commit
\* is younger than its parents
newCommit(k) == [hash |-> Hash(UrlA, k), date |-> nCommits - k]

\* the list with c put in before the first entry that is later than c
RECURSIVE InsertByDate(_, _)
InsertByDate(list, c) ==
    IF list = <<>> THEN <<c>>
    ELSE IF list[1].date > c.date THEN <<c>> \o list
    ELSE <<list[1]>> \o InsertByDate(Tail(list), c)

\* list.sort((a, b) => a.date.getTime() - b.date.getTime()): ascending and
\* stable
RECURSIVE SortByDate(_)
SortByDate(list) ==
    IF list = <<>> THEN <<>>
    ELSE InsertByDate(SortByDate(SubSeq(list, 1, Len(list) - 1)), list[Len(list)])

\* fetchData after Promise.all settles: with three ok responses the sorted
\* commits replace the list; with a response that is not ok, or a request
\* that failed, the catch sets the error; finally setLoading(false)
fetchData_Settles(ok) ==
    /\ fetchData = "pending"
    /\ ok => firstBroken # 1
    /\ IF ok
       THEN /\ commits' = SortByDate([i \in 1..Len(YieldedCommits) |->
                                       newCommit(YieldedCommits[i])])
            /\ UNCHANGED homeError
       ELSE /\ homeError' = TRUE
            /\ UNCHANGED commits
    /\ loading' = FALSE
    /\ fetchData' = "returned"
    /\ lastHandler' = "fetchData"
    /\ UNCHANGED <<isPlaying, currentCommitIndex, eventSource, streamed, intervalLength>>
    /\ UNCHANGED <<serverVars, analyzerVars>>

\* eventSource.onmessage: StreamHandler writes the commits of the log in
\* order, one "data:" frame each; the commit is appended to the list
onmessage ==
    /\ eventSource = "open"
    /\ firstBroken # 1
    /\ streamed < Len(YieldedCommits)
    /\ commits' = Append(commits, newCommit(YieldedCommits[streamed + 1]))
    /\ streamed' = streamed + 1
    /\ lastHandler' = "onmessage"
    /\ UNCHANGED <<loading, homeError, isPlaying, currentCommitIndex, fetchData,
                   eventSource, intervalLength>>
    /\ UNCHANGED <<serverVars, analyzerVars>>

\* eventSource.onerror: the response was a 500, the connection was lost or
\* the handler returned; close() keeps the EventSource from connecting again
onerror ==
    /\ eventSource = "open"
    /\ eventSource' = "closed"
    /\ lastHandler' = "onerror"
    /\ UNCHANGED <<commits, loading, homeError, isPlaying, currentCommitIndex, fetchData,
                   streamed, intervalLength>>
    /\ UNCHANGED <<serverVars, analyzerVars>>

\* the controls are rendered when neither the loading nor the error screen is
handlePlayPause ==
    /\ ~loading /\ ~homeError
    /\ currentCommitIndex' = IF currentCommitIndex >= Len(commits) - 1
                             THEN 0 ELSE currentCommitIndex
    /\ isPlaying' = ~isPlaying
    /\ lastHandler' = "handlePlayPause"
    /\ UNCHANGED <<commits, loading, homeError, fetchData, eventSource, streamed,
                   intervalLength>>
    /\ UNCHANGED <<serverVars, analyzerVars>>

\* the Reset button is disabled at index 0
handleReset ==
    /\ ~loading /\ ~homeError
    /\ currentCommitIndex # 0
    /\ currentCommitIndex' = 0
    /\ isPlaying' = FALSE
    /\ lastHandler' = "handleReset"
    /\ UNCHANGED <<commits, loading, homeError, fetchData, eventSource, streamed,
                   intervalLength>>
    /\ UNCHANGED <<serverVars, analyzerVars>>

\* the playback effect of the render that follows a change of isPlaying or
\* commits: the cleanup clears the interval, and a new one is set unless
\* the page is not playing or the list is empty
playbackEffect ==
    /\ \E length \in {IF isPlaying /\ Len(commits) # 0 THEN Len(commits) ELSE 0} :
          /\ length # intervalLength
          /\ intervalLength' = length
    /\ lastHandler' = "playbackEffect"
    /\ UNCHANGED <<commits, loading, homeError, isPlaying, currentCommitIndex, fetchData,
                   eventSource, streamed>>
    /\ UNCHANGED <<serverVars, analyzerVars>>

\* the interval callback with the slip of advancing without looking at the
\* length of the list
tick_noStop ==
    /\ intervalLength # 0
    /\ currentCommitIndex' = currentCommitIndex + 1
    /\ UNCHANGED isPlaying
    /\ lastHandler' = "tick: return next"
    /\ UNCHANGED <<commits, loading, homeError, fetchData, eventSource, streamed,
                   intervalLength>>
    /\ UNCHANGED <<serverVars, analyzerVars>>

\* the interval callback: the updater of setCurrentCommitIndex, with the
\* length of the list its effect closed over
tick ==
    /\ intervalLength # 0
    /\ LET next == currentCommitIndex + 1
       IN IF next >= intervalLength
          THEN /\ isPlaying' = FALSE
               /\ UNCHANGED currentCommitIndex
               /\ lastHandler' = "tick: return prev"
          ELSE /\ currentCommitIndex' = next
               /\ UNCHANGED isPlaying
               /\ lastHandler' = "tick: return next"
    /\ UNCHANGED <<commits, loading, homeError, fetchData, eventSource, streamed,
                   intervalLength>>
    /\ UNCHANGED <<serverVars, analyzerVars>>

\* commits.slice(0, currentCommitIndex + 1) ends at the end of the list when
\* the list is shorter
getVisibleCommits ==
    IF ~isPlaying /\ currentCommitIndex = 0 THEN commits
    ELSE SubSeq(commits, 1, IF currentCommitIndex + 1 < Len(commits)
                            THEN currentCommitIndex + 1 ELSE Len(commits))

\* --------------------------------------------------------- specifications
\* the server of src/server/main.go: concurrent /repo requests whose clients
\* keep reading
Next == \E s \in Sessions : RepoHandler(s)

Spec == Init /\ [][Next]_vars

\* the server built on the handlers package: concurrent /clone, /commits,
\* /branches and /file-modifications requests
NextHandlers ==
    \/ \E s \in Sessions : CloneHandler(s)
    \/ \E s \in Sessions : CommitsHandler(s)
    \/ \E s \in Sessions : BranchesHandler(s)
    \/ \E s \in Sessions : FileModificationsHandler(s)

HandlersSpec == Init /\ [][NextHandlers]_vars

\* one /repo request whose client may go away at any point; the directory
\* of a repository may be left from an earlier run of the server, complete
\* or (the server was stopped during a clone) incomplete
InitStream ==
    /\ Init!1 /\ Init!2 /\ Init!3 /\ Init!4 /\ Init!5 /\ Init!6
    /\ store \in [RepoIds -> {Absent} \cup [st : {"partial", "full"}, url : Urls]]
    /\ \A i \in RepoIds : store[i].st # "absent" => RepoIDOf(store[i].url) = i
    /\ NoRequests
    /\ NoClients

NextStream ==
    \/ RepoHandler(1)
    \/ Disconnect(1)

StreamSpec == InitStream /\ [][NextStream]_vars

\* the goroutine of a request that has arrived keeps running: none of its
\* calls blocks for ever
StreamLive == StreamSpec /\ WF_vars(RepoHandler(1))

\* one /repo request for a repository whose directory is there, complete,
\* when the server starts; its history is any history of up to MaxHistory
\* commits, merges included, in which every commit is an ancestor of HEAD
InitWalk ==
    /\ nCommits \in 1..MaxHistory
    /\ parents \in ParentChoices(1, nCommits)
    /\ Len(LogOrder) = nCommits
    /\ firstBroken \in 0..nCommits
    /\ statsBad \in 0..nCommits
    /\ refsOk \in BOOLEAN
    /\ refs = ClonedRefs
    /\ store = [i \in RepoIds |->
                  [st |-> "full", url |-> CHOOSE u \in Urls : RepoIDOf(u) = i]]
    /\ NoRequests
    /\ NoClients

\* the steps of RepoHandler on a directory that exists, with the call of the
\* iterator and the callback of iter.ForEach as steps of their own
NextWalk ==
    \/ \E u \in Urls : RepoHandler_Start(1, u)
    \/ RepoHandler_Stat(1)
    \/ RepoHandler_Open(1)
    \/ RepoHandler_Head(1)
    \/ RepoHandler_Branches(1)
    \/ RepoHandler_ForEachNext(1)
    \/ RepoHandler_ForEachCallback(1)
    \/ RepoHandler_Complete(1)

WalkSpec == InitWalk /\ [][NextWalk]_vars

\* two requests that list the branches of repositories whose directories
\* are there when the server starts, with any references, kept as files or
\* packed: a /repo request as the server of main.go serves it, then a
\* /branches request as the server built on the handlers package serves it
InitRefs ==
    /\ Init!1 /\ Init!2 /\ Init!3 /\ Init!4 /\ Init!5
    /\ \E loose \in SUBSET RefNames :
          \E packed \in SUBSET (RefNames \ loose) :
              refs = Enumeration(loose, packed)
    /\ store = [i \in RepoIds |->
                  [st |-> "full", url |-> CHOOSE u \in Urls : RepoIDOf(u) = i]]
    /\ NoRequests
    /\ NoClients

NextRefs ==
    \/ \E u \in Urls : RepoHandler_Start(1, u)
    \/ RepoHandler_Stat(1)
    \/ RepoHandler_Open(1)
    \/ RepoHandler_Head(1)
    \/ RepoHandler_Branches(1)
    \/ RepoHandler_Walk(1)
    \/ RepoHandler_Complete(1)
    \/ BranchesHandler(2)
    \/ getRepo_Open(2)
    \/ getRepo_Head(2)

RefsSpec == InitRefs /\ [][NextRefs]_vars

\* two /repo requests with any URL, up to the point where the handler has
\* derived the identifier and the directory from it; what the repositories
\* hold plays no part
InitUrl ==
    /\ nCommits = 1
    /\ parents = Linear(nCommits)
    /\ firstBroken = 0
    /\ statsBad = 0
    /\ refsOk = TRUE
    /\ refs = ClonedRefs
    /\ store = [i \in RepoIds |-> Absent]
    /\ NoRequests
    /\ NoClients

NextUrl == \E s \in {1, 2} : \E u \in UrlInputs : RepoHandler_Start(s, u)

UrlSpec == InitUrl /\ [][NextUrl]_vars

\* the page of RepoAnalyzer; the server is what answers its requests
InitAnalyzer ==
    /\ nCommits = 1
    /\ parents = Linear(nCommits)
    /\ firstBroken = 0
    /\ statsBad = 0
    /\ refsOk = TRUE
    /\ refs = ClonedRefs
    /\ store = [i \in RepoIds |-> Absent]
    /\ NoRequests
    /\ NoClients

\* the first call of handleSubmit reads a response of any events, cut into
\* chunks in any way
NextReader ==
    \/ setRepoUrl(UrlA)
    \/ handleSubmit
    \/ callPc[1] = "fetch" /\ \E es \in EventSeqs(MaxEvents) : fetchResolves(1, TRUE, es)
    \/ \E n \in 1..Len(wire[1]) : chunkArrives(1, n)
    \/ streamEnds(1)

ReaderSpec == InitAnalyzer /\ [][NextReader]_vars

\* the page with its user, who types, submits and cancels at any time, and
\* a server that answers with a stream or an error and sends a frame or
\* all that is left at a time; connections can fail
NextAnalyzer ==
    \/ \E u \in {<<>>, UrlA} : setRepoUrl(u)
    \/ handleSubmit
    \/ Cancel
    \/ \E r \in Calls : \E ok \in BOOLEAN : \E es \in SessionStreams :
          fetchResolves(r, ok, es)
    \/ \E r \in Calls : jsonSettles(r)
    \/ \E r \in Calls : connectionFails(r)
    \/ \E r \in Calls : \E n \in {IndexOf(wire[r], <<Newline, Newline>>) + 2, Len(wire[r])} :
          chunkArrives(r, n)
    \/ \E r \in Calls : streamEnds(r)

AnalyzerSpec == InitAnalyzer /\ [][NextAnalyzer]_vars

\* the dashboard with its user and a server whose repository has any of
\* the histories; the responses and the stream's events arrive in any order
InitDashboard ==
    /\ nCommits \in 1..MaxCommits
    /\ parents = Linear(nCommits)
    /\ firstBroken \in 0..nCommits
    /\ statsBad = 0
    /\ refsOk = TRUE
    /\ refs = ClonedRefs
    /\ store = [i \in RepoIds |-> Absent]
    /\ NoRequests
    /\ NoClients

NextDashboard ==
    \/ \E ok \in BOOLEAN : fetchData_Settles(ok)
    \/ onmessage
    \/ onerror
    \/ handlePlayPause
    \/ handleReset
    \/ playbackEffect
    \/ tick

DashboardSpec == InitDashboard /\ [][NextDashboard]_vars

\* ================================================================= claims
IsTerminal(e) == e.type \in {"complete", "error"}

Count(s, t) == Cardinality({i \in 1..Len(events[s]) : events[s][i].type = t})

IsCommit(e) == e.type = "commit"

\* the commit events of request s, in the order sent
CommitEvents(s) == SelectSeq(events[s], IsCommit)

CommitHashes(s) == [i \in 1..Len(CommitEvents(s)) |-> CommitEvents(s)[i].data.hash]

Last(q) == q[Len(q)]

HasStatus(s, m) ==
    \E i \in 1..Len(events[s]) :
        events[s][i].type = "status" /\ events[s][i].data.message = m

HasError(s, m) ==
    \E i \in 1..Len(events[s]) :
        events[s][i].type = "error" /\ events[s][i].data.message = m

\* the client received the events up to this one
Delivered(s) == SubSeq(events[s], 1, nDelivered[s])

\* the hashes of the commits q of the repository at u
Hashes(u, q) == [i \in 1..Len(q) |-> Hash(u, q[i])]

\* what the log iterator yields before it ends or fails
Yielded(u) == Hashes(u, YieldedCommits)

\* the history a walk from HEAD finds when it passes over the commit that
\* cannot be read: every commit reached from HEAD through readable commits
Readable(u) == Hashes(u, PreorderFrom(parents, << <<1>> >>, {firstBroken}))

\* s and t were both in progress at some time
Concurrent(s, t) ==
    /\ s # t
    /\ pc[s] # "idle" /\ pc[t] # "idle"
    /\ s \notin doneBefore[t] /\ t \notin doneBefore[s]

\* C1: of two concurrent /clone requests for one identifier at most one runs
\* a clone, and a request that was answered 200 has a complete repository
\* in the directory (HandlersSpec)
C1_OneCloneForConcurrentRequests ==
    \A s, t \in Sessions :
        (Concurrent(s, t) /\ kind[s] = "clone" /\ kind[t] = "clone" /\ rid[s] = rid[t])
        => /\ ~(ranClone[s] /\ ranClone[t])
           /\ \A x \in {s, t} :
                 (pc[x] = "done" /\ resp[x] = 200) => store[rid[x]].st = "full"

\* C2: a /repo session whose branch listing succeeded has no event after a
\* complete or error event, and when it has returned it has sent exactly
\* one of them (StreamSpec)
C2_OneTerminalEventAndNothingAfter ==
    \A s \in Sessions :
        (kind[s] = "repo" /\ refsOk)
        => /\ \A i \in 1..(Len(events[s]) - 1) : ~IsTerminal(events[s][i])
           /\ pc[s] = "done" => Count(s, "complete") + Count(s, "error") = 1

\* C3: a /repo request that has arrived returns after sending a complete or
\* error event as its last event, and the client, if it is still there, has
\* received it (StreamLive)
C3_EveryStreamEndsWithTerminalEvent ==
    \A s \in {1} :
        (pc[s] # "idle")
        ~> (/\ pc[s] = "done"
            /\ IsTerminal(Last(events[s]))
            /\ connected[s] => Delivered(s) = events[s])

\* a stream that ended with the error event of a failed repo.Head()
C3_Witness ==
    /\ pc[1] = "done" /\ connected[1]
    /\ Last(Delivered(1)) = [type |-> "error", data |-> [message |-> "Failed to get HEAD reference"]]

\* index of the last event of s that is not after the walk: the last
\* commit event, or the last event before the first commit
WalkEnd(s) ==
    LET cs == {i \in 1..Len(events[s]) : IsCommit(events[s][i])}
    IN IF cs = {} THEN Len(events[s]) - 1 ELSE CHOOSE i \in cs : \A j \in cs : j <= i

\* C4: a session that has walked a history from a readable head has sent one
\* commit event for every commit that can be read, in history order, each
\* once, and after the last of them exactly one event, a complete or an
\* error (StreamSpec)
C4_AllCommitsThenOneTerminalEvent ==
    \A s \in Sessions :
        (kind[s] = "repo" /\ pc[s] = "done" /\ firstBroken # 1
            /\ HasStatus(s, "Fetching commits history"))
        => /\ CommitHashes(s) = Readable(store[rid[s]].url)
           /\ WalkEnd(s) = Len(events[s]) - 1
           /\ IsTerminal(Last(events[s]))

\* C5: once a client that had seen the walk begin is gone, the handler
\* takes at most one more commit from the iterator, so at most one more
\* commit event is produced (StreamSpec)
C5_StopsWalkingAfterDisconnect ==
    \A s \in Sessions :
        (/\ kind[s] = "repo" /\ ~connected[s]
         /\ \E i \in 1..nDelivered[s] :
               /\ events[s][i].type = "status"
               /\ events[s][i].data.message = "Fetching commits history")
        => idx[s] - Len(SelectSeq(Delivered(s), IsCommit)) <= 1

\* C6: a request takes the directory-exists path only when the directory
\* holds a complete repository, never opens a directory that is still being
\* cloned, and no two requests clone into one directory at a time
\* (HandlersSpec)
C6_ReuseOnlyOfCompleteRepository ==
    /\ \A s \in Sessions : path[s] = "reuse" => seenStore[s] = "full"
    /\ \A s \in Sessions : acquired[s] # "partial"
    /\ \A s, t \in Sessions :
          (s # t /\ pc[s] = "cloning" /\ pc[t] = "cloning") => rid[s] # rid[t]

\* C7: a /repo session whose clone failed has returned, and has sent exactly
\* one error event, as its last event, and no branches, commit or complete
\* event (Spec)
C7_CloneFailureEndsWithOneError ==
    \A s \in Sessions :
        (kind[s] = "repo" /\ acquired[s] = "clonefailed")
        => /\ pc[s] = "done"
           /\ Count(s, "error") = 1
           /\ Last(events[s]).type = "error"
           /\ Count(s, "branches") = 0
           /\ Count(s, "commit") = 0
           /\ Count(s, "complete") = 0

\* a session whose clone of an unreachable source failed after it had begun
C7_Witness ==
    \E s \in Sessions :
        /\ kind[s] = "repo" /\ acquired[s] = "clonefailed" /\ ranClone[s]
        /\ store[rid[s]].st = "absent"
        /\ HasError(s, "Clone failed")

\* the second of two /repo requests for one identifier, made after the first
\* had cloned the repository and returned
InSequence(s1, s2) ==
    /\ kind[s1] = "repo" /\ kind[s2] = "repo"
    /\ rid[s1] = rid[s2]
    /\ s1 \in doneBefore[s2]
    /\ ranClone[s1] /\ acquired[s1] = "full"
    /\ seenStore[s2] \notin {"none", "absent"}

\* C8: the second of two requests in sequence for one identifier runs no
\* clone, sends the status of the reuse and not that of a clone, finds and
\* leaves the directory as the first left it, and when it has returned has
\* sent the same set of commit events as the first (Spec)
C8_SecondRequestReuses ==
    \A s1, s2 \in Sessions :
        InSequence(s1, s2)
        => /\ ~ranClone[s2]
           /\ path[s2] = "reuse"
           /\ HasStatus(s2, "Repository already exists, opening existing repository")
           /\ ~HasStatus(s2, "Cloning repository")
           /\ store[rid[s2]] = [st |-> "full", url |-> url[s1]]
           /\ pc[s2] = "done"
              => {CommitEvents(s2)[i] : i \in 1..Len(CommitEvents(s2))}
                 = {CommitEvents(s1)[i] : i \in 1..Len(CommitEvents(s1))}

\* a second request in sequence that has returned after sending all commits
C8_Witness ==
    \E s1, s2 \in Sessions :
        /\ InSequence(s1, s2)
        /\ pc[s2] = "done"
        /\ Len(CommitEvents(s2)) = nCommits
        /\ nCommits >= 2

\* C9: in a session whose branch listing failed there is one error event
\* for the branches and no branches event, the session goes on to the
\* commit history, and when it has returned it has sent a commit event for
\* every commit the log iterator yielded and a complete or error event as
\* its last event (StreamSpec)
C9_BranchFailureIsNotFatal ==
    \A s \in Sessions :
        (kind[s] = "repo" /\ ~refsOk /\ pc[s] \in {"walk", "complete", "done"}
            /\ HasStatus(s, "Fetching branches"))
        => /\ HasError(s, "Failed to get branches")
           /\ Count(s, "branches") = 0
           /\ HasStatus(s, "Fetching commits history")
           /\ pc[s] = "done"
              => /\ CommitHashes(s) = Yielded(store[rid[s]].url)
                 /\ IsTerminal(Last(events[s]))

\* a session that sent every commit and the complete event after the
\* branch listing had failed
C9_Witness ==
    /\ ~refsOk /\ pc[1] = "done"
    /\ HasError(1, "Failed to get branches")
    /\ Len(CommitEvents(1)) = nCommits
    /\ Last(events[1]).type = "complete"

\* the commit events sent for the commit whose Stats() fails
StatsFailedEvents(s) ==
    {i \in 1..Len(events[s]) :
        IsCommit(events[s][i]) /\ events[s][i].data.hash[2] = statsBad}

C11_WalkSkipsUnreadableCommit ==
    \A s \in Sessions :
        (kind[s] = "repo" /\ pc[s] = "done" /\ firstBroken \notin {0, 1}
            /\ HasStatus(s, "Fetching commits history"))
        => CommitHashes(s) = Readable(store[rid[s]].url)

\* C12: a session that acquired its repository and whose client stayed is
\* not aborted by a later failure: when it has returned it has sent a commit
\* event for every commit reached from HEAD through readable commits and
\* the complete event as its last event (WalkSpec)
C12_OnlyAcquisitionFailureAborts ==
    \A s \in Sessions :
        (kind[s] = "repo" /\ pc[s] = "done" /\ acquired[s] = "full" /\ connected[s])
        => /\ CommitHashes(s) = Readable(store[rid[s]].url)
           /\ Last(events[s]).type = "complete"

\* the state of the orchestrator a request is in
OrchestratorState(l) ==
    CASE l = "idle" -> 0                                    \* Idle
      [] l \in {"stat", "clone", "cloning", "open"} -> 1     \* Acquiring
      [] l \in {"head", "branches"} -> 2                     \* ListingBranches
      [] l \in {"walk", "callback", "complete"} -> 3         \* Streaming
      [] l = "done" -> 4                                    \* Completed | Failed

\* the events of s are in the order of the states: branches and commit
\* events only after the repository was cloned or opened, at most one
\* branches event, none after a commit event, and no status event after a
\* commit event
EventsInStateOrder(s) ==
    /\ (Count(s, "branches") + Count(s, "commit") > 0)
       => acquired[s] \in {"full", "partial"}
    /\ Count(s, "branches") <= 1
    /\ \A i, j \in 1..Len(events[s]) :
          (i < j /\ IsCommit(events[s][i]))
          => events[s][j].type \notin {"status", "branches"}

\* C13: the events of every /repo session are in the order of the states
\* Idle, Acquiring, ListingBranches, Streaming, Completed or Failed, and no
\* step takes a request to an earlier state (StreamSpec)
C13_EventsFollowStateOrder ==
    /\ [](\A s \in Sessions : kind[s] = "repo" => EventsInStateOrder(s))
    /\ [][\A s \in Sessions :
             OrchestratorState(pc'[s]) >= OrchestratorState(pc[s])]_vars

\* a session that sent the branches event, then two commit events, then the
\* complete event, and has returned
C13_Witness ==
    /\ pc[1] = "done"
    /\ Count(1, "branches") = 1
    /\ Len(CommitEvents(1)) >= 2
    /\ Last(events[1]).type = "complete"

\* C14: of the commits a /repo session has taken from the iterator at most
\* one has not yet gone through sendSSEMessage, and the session takes the
\* next commit only when the write and flush of every commit it took before
\* has returned (WalkSpec)
C14_OneEventAtATime ==
    /\ [](\A s \in Sessions : idx[s] - Len(CommitEvents(s)) \in {0, 1})
    /\ [][\A s \in Sessions :
             idx'[s] > idx[s] => Len(CommitEvents(s)) = idx[s]]_vars

\* a session in the callback on its second commit, the first one sent
C14_Witness ==
    /\ pc[1] = "callback"
    /\ idx[1] = 2
    /\ Len(CommitEvents(1)) = 1
    /\ nCommits > 2

\* C15: every event a /repo session passed to sendSSEMessage either reached
\* the client or its failure was reported to the handler (StreamSpec)
C15_SendTransmitsOrReports ==
    \A s \in Sessions :
        \A i \in 1..Len(events[s]) :
            i <= nDelivered[s] \/ i \in reportedFailures(s)

\* the history of the scenario: HEAD is the merge C (commit 1) of B
\* (commit 2) and D (commit 3), B is the child of the root A (commit 4), and
\* D is a root or another child of A
MergeScenario ==
    /\ nCommits = 4
    /\ parents \in {<< <<2, 3>>, <<4>>, <<>>, <<>> >>, << <<2, 3>>, <<4>>, <<4>>, <<>> >>}
    /\ firstBroken = 0 /\ statsBad = 0 /\ refsOk

EventTypes(s) == [i \in 1..Len(events[s]) |-> events[s][i].type]

\* C16: a session that has walked the history of the scenario has sent
\* exactly a status, the branches, the commits C, D, B and A in this order,
\* C with the stats against B, B with those against A, A with those
\* against the empty tree, and the complete event (WalkSpec)
C16_MergeScenarioEvents ==
    \A s \in Sessions :
        (kind[s] = "repo" /\ pc[s] = "done" /\ MergeScenario)
        => /\ EventTypes(s) = <<"status", "branches", "commit", "commit", "commit",
                               "commit", "complete">>
           /\ CommitHashes(s) = Hashes(store[rid[s]].url, <<1, 3, 2, 4>>)
           /\ \A i \in 1..Len(events[s]) :
                 IsCommit(events[s][i])
                 => LET c == events[s][i].data
                    IN /\ c.hash[2] = 1 => c.modifications = Diff(Tree(2), Tree(1))
                       /\ c.hash[2] = 2 => c.modifications = Diff(Tree(4), Tree(2))
                       /\ c.hash[2] = 4 => c.modifications = Diff({}, Tree(4))

\* the branch lists the requests have produced: the data of the branches
\* events and the bodies of the answers of /branches
BranchLists ==
    {body[s] : s \in {t \in Sessions : kind[t] = "branches" /\ resp[t] = 200}}
    \cup UNION {{events[s][i].data :
                    i \in {j \in 1..Len(events[s]) : events[s][j].type = "branches"}} :
                s \in Sessions}

\* C17: every branch list is in lexicographic order, and all the lists taken
\* of the unchanged references are the same (RefsSpec)
C17_BranchesInLexicographicOrder ==
    /\ \A L \in BranchLists :
          \A i, j \in 1..Len(L) : i < j => LexLess(L[i], L[j])
    /\ \A L1, L2 \in BranchLists : L1 = L2

\* the names n for which the directory holds the reference refs/heads/n
LocalBranches ==
    {n \in UNION {{SubSeq(r, k, Len(r)) : k \in 1..Len(r)} : r \in RefNames} :
        \E i \in 1..Len(refs) : refs[i] = HeadsPrefix \o n}

\* C18: every branch list holds the names of the local branches of the
\* directory, each once, and nothing else, whatever tags and
\* remote-tracking references the directory holds (RefsSpec)
C18_ExactlyTheLocalBranches ==
    \A L \in BranchLists :
        /\ {L[i] : i \in 1..Len(L)} = LocalBranches
        /\ Len(L) = Cardinality(LocalBranches)

\* both requests have listed the two local branches of a directory that
\* also holds a tag and a remote-tracking reference
C18_Witness ==
    /\ pc[1] = "done" /\ pc[2] = "done"
    /\ Count(1, "branches") = 1
    /\ resp[2] = 200 /\ Len(body[2]) = 2
    /\ \E i, j \in 1..Len(refs) :
          refs[i] = TagsPrefix \o <<"a">> /\ refs[j] = RemotesPrefix \o <<"o", "/", "b">>

\* the part of u after its last "/", all of u when it has none
LastSegment(u) ==
    LET slashes == {i \in 1..Len(u) : u[i] = "/"}
        start == IF slashes = {} THEN 1
                 ELSE 1 + CHOOSE i \in slashes : \A j \in slashes : j <= i
    IN SubSeq(u, start, Len(u))

\* C19: the identifier of a /repo request is the last "/"-separated segment
\* of its URL without a trailing ".git", its directory is "repos/" followed
\* by the identifier, and two requests with the same URL have the same
\* identifier and directory (UrlSpec)
C19_IdentifierAndPathFromUrl ==
    \A s \in Sessions :
        kind[s] = "repo"
        => /\ LET seg == LastSegment(url[s])
                  n == Len(seg)
              IN rid[s] = IF n >= 4 /\ SubSeq(seg, n - 3, n) = <<".", "g", "i", "t">>
                          THEN SubSeq(seg, 1, n - 4)
                          ELSE seg
           /\ repoPath(rid[s]) = <<"r", "e", "p", "o", "s", "/">> \o rid[s]
           /\ \A t \in Sessions :
                 (kind[t] = "repo" /\ url[t] = url[s])
                 => rid[t] = rid[s] /\ repoPath(rid[t]) = repoPath(rid[s])

\* C20: no step of a /commits, /branches or /file-modifications request
\* changes a repository directory, and such a request is answered with data
\* only when the directory of its identifier holds a complete repository;
\* when it has returned and the directory holds none, the answer is an
\* error (HandlersSpec)
C20_ReadOnlyEndpoints ==
    /\ [][\A s \in Sessions :
             (kind'[s] \in ReadOnly /\ pc'[s] # pc[s]) => store' = store]_vars
    /\ [](\A s \in Sessions :
             kind[s] \in ReadOnly
             => /\ resp[s] = 200 => store[rid[s]].st = "full"
                /\ (pc[s] = "done" /\ store[rid[s]].st # "full")
                   => resp[s] = 500 /\ body[s] = <<>>)

\* a /file-modifications request for an identifier that was never cloned
\* was answered with an error, after a /clone request had acquired the
\* repository of another identifier
C20_Witness ==
    \E s, t \in Sessions :
        /\ kind[s] = "modifications" /\ pc[s] = "done" /\ resp[s] = 500
        /\ store[rid[s]].st = "absent"
        /\ kind[t] = "clone" /\ resp[t] = 200 /\ store[rid[t]].st = "full"

\* the event a call of sendSSEMessage passes to the sink
Event(t, d) == [type |-> t, data |-> d]

\* the events of a /repo request for u that finds no directory and no other
\* request for its identifier, its clone succeeding (ok) or failing
AloneEvents(u, ok) ==
    <<Event("status", [message |-> "Starting repository processing",
                       repoId |-> RepoIDOf(u)]),
      Event("status", [message |-> "Cloning repository", repoUrl |-> u])>>
    \o IF ~ok
       THEN <<Event("error", [message |-> "Clone failed"])>>
       ELSE <<Event("status", [message |-> "Repository cloned successfully",
                               repoId |-> RepoIDOf(u)]),
              Event("status", [message |-> "Fetching branches"]),
              IF refsOk
              THEN Event("branches", getBranches)
              ELSE Event("error", [message |-> "Failed to get branches"]),
              Event("status", [message |-> "Fetching commits history"])>>
            \o IF firstBroken = 1
               THEN <<Event("error", [message |-> "Failed to get commit logs"])>>
               ELSE [i \in 1..Len(YieldedCommits) |->
                        Event("commit", commitData(u, YieldedCommits[i]))]
                    \o (IF Len(YieldedCommits) < Len(LogOrder)
                        THEN <<Event("error", [message |-> "Error processing commits"])>>
                        ELSE <<>>)
                    \o <<Event("complete", [message |-> "Repository analysis complete",
                                            repoId |-> RepoIDOf(u)])>>

\* no other request has the identifier of s
OnlyOneFor(s) == \A t \in Sessions \ {s} : kind[t] # "none" => rid[t] # rid[s]

\* C21: /repo sessions share nothing but the directory of their identifier:
\* a step appends events to the sink of the one session that takes it, a
\* directory changes only in a clone step of a session for its identifier,
\* and a session that was the only one for its identifier has sent, when it
\* has returned, the events it sends when it runs alone, whatever sessions
\* for other identifiers ran at the same time (Spec)
C21_NoSharedStateAcrossIdentifiers ==
    /\ [][\A s \in Sessions :
             events'[s] # events[s]
             => /\ pc[s] # "done"
                /\ pc'[s] # pc[s] \/ idx'[s] # idx[s]
                /\ \A t \in Sessions \ {s} :
                      events'[t] = events[t] /\ pc'[t] = pc[t] /\ idx'[t] = idx[t]]_vars
    /\ [][\A i \in RepoIds :
             store'[i] # store[i]
             => \E s \in Sessions :
                   rid[s] = i /\ pc[s] \in {"clone", "cloning"} /\ pc'[s] # pc[s]]_vars
    /\ [](\A s \in Sessions :
             (kind[s] = "repo" /\ pc[s] = "done" /\ OnlyOneFor(s))
             => \E ok \in BOOLEAN :
                   /\ EventTypes(s) = [i \in 1..Len(AloneEvents(url[s], ok)) |->
                                          AloneEvents(url[s], ok)[i].type]
                   /\ events[s] = AloneEvents(url[s], ok))

\* two sessions for different identifiers that ran at the same time, both
\* cloned, and both sent every commit and the complete event
C21_Witness ==
    /\ Concurrent(1, 2) /\ rid[1] # rid[2]
    /\ pc[1] = "done" /\ pc[2] = "done"
    /\ ranClone[1] /\ ranClone[2]
    /\ \A s \in {1, 2} : Len(CommitEvents(s)) = nCommits /\ Last(events[s]).type = "complete"
    /\ nCommits >= 2

\* s is between its os.Stat and the return of its PlainClone or PlainOpen
Acquiring(s) == kind[s] = "repo" /\ pc[s] \in {"stat", "clone", "cloning", "open"}

\* C22: the acquisitions of sessions for one identifier do not overlap, and
\* those of sessions for different identifiers do not wait for one another:
\* while a clone is in progress, a session for another identifier that has
\* not yet returned can take its next step (Spec)
C22_SerializedPerIdentifierOnly ==
    /\ \A s, t \in Sessions :
          (s # t /\ Acquiring(s) /\ Acquiring(t)) => rid[s] # rid[t]
    /\ \A s, t \in Sessions :
          (/\ pc[s] = "cloning" /\ kind[t] = "repo" /\ rid[t] # rid[s]
           /\ pc[t] \notin {"idle", "done"})
          => ENABLED RepoHandler(t)

\* C23: every event a /repo session passes to the sink carries a sequence
\* position, and the position of every event is above that of the event
\* sent before it in the session (Spec)
C23_EventsCarryIncreasingPositions ==
    \A s \in Sessions :
        \A i \in 1..Len(events[s]) :
            /\ "position" \in DOMAIN events[s][i]
            /\ i > 1 => events[s][i].position > events[s][i - 1].position

\* the entries of the message list that came from the stream: those the
\* client did not make itself
FromStream(m) == "text" \notin DOMAIN m.payload

\* the message the reader is to append for an event of the server
MessageFor(e) == Message(e.type, e.data)

\* the call made last
LastCall == Cardinality({c \in Calls : callPc[c] # "none"})

\* the number of events of call r whose frames the client has received to
\* the last byte
FramesReceived(r) ==
    LET got == Len(FrameAll(framed[r])) - Len(wire[r])
        whole == {k \in 0..Len(framed[r]) : Len(FrameAll(SubSeq(framed[r], 1, k))) <= got}
    IN CHOOSE k \in whole : \A j \in whole : j <= k

\* C24: whatever events the server framed and however their bytes were cut
\* into chunks, the entries the reader has appended are, in the order
\* sent, one for every event whose frame has arrived to its last byte, with
\* the type and the JSON value of the event: all of them when the stream
\* has ended (ReaderSpec)
C24_OneMessagePerFramedEvent ==
    \A r \in Calls :
        (r = LastCall /\ callPc[r] \in {"read", "returned"})
        => SelectSeq(messages, FromStream)
           = [i \in 1..FramesReceived(r) |-> MessageFor(framed[r][i])]

\* a chunk has ended inside the second event, between the two bytes of a
\* character, after the first event was appended
C24_Witness ==
    /\ callPc[1] = "read"
    /\ Len(framed[1]) = 2
    /\ Len(SelectSeq(messages, FromStream)) = 1
    /\ buffer[1] # <<>>
    /\ decoderHeld[1] # <<>>

IsTerminalTag(t) == t \in {CompleteTag, ErrorTag}

\* call r read its response to the end, the last event of which was a
\* complete or an error event, and nothing was submitted since
EndedWithTerminalEvent(r) ==
    /\ r = LastCall /\ callPc[r] = "returned"
    /\ ~signalAborted[r] /\ error = NoError
    /\ framed[r] # <<>> /\ wire[r] = <<>>
    /\ IsTerminalTag(Last(framed[r]).type)

\* C25: when a call has read to its end a stream that ended with a complete
\* or an error event, loading is over and the last entry of the message
\* list is that event, not an entry of the client (AnalyzerSpec)
C25_TerminalEventIsLastMessage ==
    \A r \in Calls :
        EndedWithTerminalEvent(r)
        => /\ ~isLoading
           /\ Last(messages) = MessageFor(Last(framed[r]))

\* the calls whose request is under way
InFlight == {r \in Calls : callPc[r] \in {"fetch", "json", "read"} /\ ~signalAborted[r]}

\* C26: at most one request is under way at any time, and a submit while
\* isLoading is true or with an empty URL starts no request and leaves the
\* message list, the error and the abort controller as they are
\* (AnalyzerSpec)
C26_OneRequestInFlight ==
    /\ [](Cardinality(InFlight) <= 1)
    /\ [][(submits' # submits /\ (isLoading \/ repoUrl = <<>>))
          => UNCHANGED <<messages, error, isLoading, abortControllerRef, callPc,
                         signalAborted>>]_vars

\* a submit was turned down while the first call was reading its stream
C26_Witness ==
    /\ submits = 2
    /\ callPc[1] = "read" /\ callPc[2] = "none"
    /\ Len(SelectSeq(messages, FromStream)) >= 1
    /\ isLoading

\* C27: a call whose controller was aborted has returned and reads no more
\* of its stream; a call that has not returned finds isLoading true and its
\* own controller in the ref; and the return of a call leaves both as they
\* are for every call made after it (AnalyzerSpec)
C27_CancelAffectsOnlyItsRequest ==
    /\ [](\A r \in Calls :
             /\ signalAborted[r] => callPc[r] = "returned"
             /\ callPc[r] \in {"fetch", "json", "read"}
                => isLoading /\ abortControllerRef = r)
    /\ [][\A r \in Calls :
             /\ signalAborted[r] => wire'[r] = wire[r]
             /\ (callPc[r] # "returned" /\ callPc'[r] = "returned")
                => \A q \in Calls :
                      (q > r /\ callPc'[q] \in {"fetch", "json", "read"})
                      => isLoading' /\ abortControllerRef' = q]_vars

\* the first call was cancelled while it read its stream, and the second
\* reads its own
C27_Witness ==
    /\ signalAborted[1] /\ callPc[1] = "returned" /\ wire[1] # <<>>
    /\ callPc[2] = "read" /\ isLoading /\ abortControllerRef = 2
    /\ Len(SelectSeq(messages, FromStream)) >= 1

\* the commits the EventSource has delivered to onmessage
StreamCommits == {YieldedCommits[i] : i \in 1..streamed}

\* no hash is in the commit list twice
NoHashTwice ==
    \A i, j \in DOMAIN commits : commits[i].hash = commits[j].hash => i = j

\* every commit the stream has delivered is in the commit list
StreamCommitsKept ==
    \A k \in StreamCommits : \E i \in DOMAIN commits : commits[i].hash = Hash(UrlA, k)

\* C28: in the dashboard, the commit list never holds the same commit hash
\* twice, however the completion of the /commits fetch and the arrival of
\* the /stream events interleave, and no commit the stream has delivered is
\* missing from the list after the fetch result is stored.
C28_NoDuplicateCommits == NoHashTwice /\ StreamCommitsKept

\* 0 <= currentCommitIndex <= max(0, commits.length - 1)
IndexInRange ==
    /\ 0 <= currentCommitIndex
    /\ currentCommitIndex <= (IF Len(commits) - 1 > 0 THEN Len(commits) - 1 ELSE 0)

\* the visible commits are the first commits of the list, and all of them
\* when the page is not playing at index 0
VisibleIsPrefix ==
    /\ \E n \in 0..Len(commits) : getVisibleCommits = [i \in 1..n |-> commits[i]]
    /\ (~isPlaying /\ currentCommitIndex = 0) => getVisibleCommits = commits

\* a tick at the last commit stops the playback and leaves the index
TickAtLastCommit ==
    (tick /\ currentCommitIndex = Len(commits) - 1)
        => (isPlaying' = FALSE /\ currentCommitIndex' = currentCommitIndex)

\* C29: in the playback of the dashboard, after any play/pause, reset,
\* timer ticks and commit arrivals, the index is at least 0 and at most
\* max(0, commits.length - 1); a tick at the last commit sets isPlaying to
\* false and does not advance the index; the visible commits are a prefix
\* of the commit list, the whole list when not playing at index 0.
C29_PlaybackStaysInRange ==
    [](IndexInRange /\ VisibleIsPrefix) /\ [][TickAtLastCommit]_vars

\* the playback has run up to the last of several commits, where a tick
\* has stopped it; the visible commits are the whole list
C29_Witness ==
    /\ lastHandler = "tick: return prev"
    /\ Len(commits) >= 2
    /\ currentCommitIndex = Len(commits) - 1
    /\ ~isPlaying
    /\ getVisibleCommits = commits

====
